---- MODULE Spec2Model ----
(***************************************************************************)
(* A model of the rustcraft multiplayer core: the chunk store, the player  *)
(* physics, the DDA ray cast, the inventory, the socket transport, the     *)
(* server's tick pipeline and the client's reconciliation.                 *)
(*                                                                         *)
(* Lengths are fixed-point: Unit thousandths of a block (the finest        *)
(* quantity of the source is the 0.001 of collides_with_world).  Times are *)
(* milliseconds, speeds thousandths of a block per second.                 *)
(***************************************************************************)
EXTENDS Integers, Sequences, FiniteSets, TLC

Unit == 1000

(***************************************************************************)
(* Integer arithmetic of the source language.                              *)
(***************************************************************************)
Abs(a) == IF a < 0 THEN -a ELSE a

Min(a, b) == IF a < b THEN a ELSE b

Max(a, b) == IF a > b THEN a ELSE b

\* i32 `/`: rounds toward zero.
TruncDiv(a, b) == IF (a >= 0) = (b > 0) THEN Abs(a) \div Abs(b) ELSE -(Abs(a) \div Abs(b))

\* i32 `%`: the sign of the dividend.
TruncRem(a, b) == a - b * TruncDiv(a, b)

\* i32::div_euclid (core::num): q = a / b, corrected when the remainder is negative.
div_euclid(a, b) ==
    LET q == TruncDiv(a, b)
    IN  IF TruncRem(a, b) < 0 THEN (IF b > 0 THEN q - 1 ELSE q + 1) ELSE q

\* i32::rem_euclid (core::num): r = a % b, corrected when negative.
rem_euclid(a, b) ==
    LET r == TruncRem(a, b)
    IN  IF r < 0 THEN (IF b < 0 THEN r - b ELSE r + b) ELSE r

\* `as usize` of an i32: a negative value wraps to a value beyond every array
\* length (2^64 + n in the build; any value past the largest array will do).
AsUsize(n) == IF n >= 0 THEN n ELSE 2000000000 + n

\* f32::floor of a fixed-point length, in whole blocks (`.floor() as i32`).
Floor(a) == a \div Unit

(***************************************************************************)
(* block.rs                                                                *)
(***************************************************************************)
BlockType == {"Air", "Grass", "Dirt", "Stone", "Sand", "Water", "Wood", "Leaves"}

is_solid(b) == b # "Air"

(***************************************************************************)
(* chunk.rs: Chunk.  A block array of BLOCKS_PER_CHUNK entries is held as  *)
(* the content it was created with (base: <<>> for the all-Air array of    *)
(* Chunk::new, <<cx, cz>> for the terrain generate_chunk writes for that   *)
(* chunk) and the entries that differ from it (over).                      *)
(***************************************************************************)
CHUNK_SIZE == 16

CHUNK_HEIGHT == 64

BLOCKS_PER_CHUNK == CHUNK_SIZE * CHUNK_SIZE * CHUNK_HEIGHT

\* world_session.rs generate_chunk: BASE_HEIGHT, AMPLITUDE, SAND_LEVEL.
BASE_HEIGHT == 20

AMPLITUDE == 15

SAND_LEVEL == 14

\* The noise value of a column, in thousandths (Perlin::get lies in [-1, 1]):
\* a fixed function of the world column that varies slowly.
PerlinGet(wx, wz) == ((((wx \div 8) + (wz \div 8)) % 5) - 2) * 200

\* generate_chunk: the height of a column, `as i32` then clamp(1, CHUNK_HEIGHT - 1).
ColumnHeight(wx, wz) ==
    LET h == TruncDiv(BASE_HEIGHT * Unit + PerlinGet(wx, wz) * AMPLITUDE, Unit)
    IN  Max(1, Min(h, CHUNK_HEIGHT - 1))

\* generate_chunk: the block written at local (lx, y, lz) of chunk pos.
GeneratedBlock(pos, lx, y, lz) ==
    LET height == ColumnHeight(pos[1] * CHUNK_SIZE + lx, pos[2] * CHUNK_SIZE + lz)
    IN  IF y > height THEN "Air"
        ELSE IF y = height THEN (IF height <= SAND_LEVEL THEN "Sand" ELSE "Grass")
        ELSE IF y >= height - 3 THEN "Dirt"
        ELSE "Stone"

Chunk_index(x, y, z) == x + z * CHUNK_SIZE + y * CHUNK_SIZE * CHUNK_SIZE

\* The entry i of the content an array was created with.
BaseAt(base, i) ==
    IF base = <<>> THEN "Air"
    ELSE GeneratedBlock(base, i % CHUNK_SIZE, i \div (CHUNK_SIZE * CHUNK_SIZE),
                        (i \div CHUNK_SIZE) % CHUNK_SIZE)

\* blocks[i]: an index past the end of the Vec panics.
ArrayRead(arr, i) ==
    IF i < 0 \/ i >= BLOCKS_PER_CHUNK THEN "PANIC"
    ELSE IF i \in DOMAIN arr.over THEN arr.over[i]
    ELSE BaseAt(arr.base, i)

\* blocks[i] = b.
ArrayWrite(arr, i, b) ==
    IF BaseAt(arr.base, i) = b
    THEN [arr EXCEPT !.over = [j \in (DOMAIN arr.over) \ {i} |-> arr.over[j]]]
    ELSE [arr EXCEPT !.over = [j \in (DOMAIN arr.over) \cup {i} |->
                                    IF j = i THEN b ELSE arr.over[j]]]

EmptyOver == [j \in {} |-> "Air"]

\* Chunk::new
Chunk_new == [blocks |-> [base |-> <<>>, over |-> EmptyOver], dirty |-> FALSE]

\* generate_chunk(pos): the chunk it inserts (dirty reset to false).
GeneratedChunk(pos) == [blocks |-> [base |-> pos, over |-> EmptyOver], dirty |-> FALSE]

Chunk_get_block(c, x, y, z) ==
    IF x >= CHUNK_SIZE \/ y >= CHUNK_HEIGHT \/ z >= CHUNK_SIZE THEN "Air"
    ELSE ArrayRead(c.blocks, Chunk_index(x, y, z))

Chunk_set_block(c, x, y, z, b) ==
    IF x >= CHUNK_SIZE \/ y >= CHUNK_HEIGHT \/ z >= CHUNK_SIZE THEN c
    ELSE [blocks |-> ArrayWrite(c.blocks, Chunk_index(x, y, z), b), dirty |-> TRUE]

(***************************************************************************)
(* chunk.rs: ChunkMap, a map from ChunkPos <<cx, cz>> to Chunk.            *)
(***************************************************************************)
\* The chunk coordinate of a world coordinate.
ChunkCoordTrunc(w) == TruncDiv(w, CHUNK_SIZE)

ChunkCoord(w) == div_euclid(w, CHUNK_SIZE)

\* The local coordinate of a world coordinate.
LocalCoord(w) == AsUsize(rem_euclid(w, CHUNK_SIZE))

ChunkMap_get_block(cm, wx, wy, wz) ==
    IF wy < 0 \/ wy >= CHUNK_HEIGHT THEN "Air"
    ELSE LET pos == <<ChunkCoord(wx), ChunkCoord(wz)>>
         IN  IF pos \in DOMAIN cm
             THEN Chunk_get_block(cm[pos], LocalCoord(wx), AsUsize(wy), LocalCoord(wz))
             ELSE "Air"

\* The chunks whose dirty flag set_block sets because the block is on a border.
BorderNeighbours(cx, cz, lx, lz) ==
    (IF lx = 0 THEN {<<cx - 1, cz>>} ELSE {})
    \cup (IF lx = CHUNK_SIZE - 1 THEN {<<cx + 1, cz>>} ELSE {})
    \cup (IF lz = 0 THEN {<<cx, cz - 1>>} ELSE {})
    \cup (IF lz = CHUNK_SIZE - 1 THEN {<<cx, cz + 1>>} ELSE {})

ChunkMap_set_block(cm, wx, wy, wz, b) ==
    IF wy < 0 \/ wy >= CHUNK_HEIGHT THEN cm
    ELSE LET cx == ChunkCoord(wx)
             cz == ChunkCoord(wz)
             lx == LocalCoord(wx)
             lz == LocalCoord(wz)
             near == BorderNeighbours(cx, cz, lx, lz)
             written == IF <<cx, cz>> \in DOMAIN cm
                        THEN [cm EXCEPT ![<<cx, cz>>] =
                                  Chunk_set_block(@, lx, AsUsize(wy), lz, b)]
                        ELSE cm
         IN  [p \in DOMAIN cm |->
                 IF p \in near THEN [written[p] EXCEPT !.dirty = TRUE] ELSE written[p]]

(***************************************************************************)
(* physics.rs.  A position is <<x, y, z>>, the player's feet.              *)
(***************************************************************************)
PLAYER_HALF_WIDTH == 300

PLAYER_HEIGHT == 1800

EYE_HEIGHT == 1700

GRAVITY == 32000

JUMP_VELOCITY == 9000

TERMINAL_VELOCITY == 78400

\* The 0.001 by which collides_with_world and is_on_ground shrink the box.
Epsilon == 1

collides_with_world(pos, cm) ==
    LET min_x == Floor(pos[1] - PLAYER_HALF_WIDTH)
        max_x == Floor(pos[1] + PLAYER_HALF_WIDTH - Epsilon)
        min_y == Floor(pos[2])
        max_y == Floor(pos[2] + PLAYER_HEIGHT - Epsilon)
        min_z == Floor(pos[3] - PLAYER_HALF_WIDTH)
        max_z == Floor(pos[3] + PLAYER_HALF_WIDTH - Epsilon)
    IN  \E bx \in min_x..max_x, by \in min_y..max_y, bz \in min_z..max_z :
            is_solid(ChunkMap_get_block(cm, bx, by, bz))

is_on_ground(pos, cm) ==
    LET min_x == Floor(pos[1] - PLAYER_HALF_WIDTH)
        max_x == Floor(pos[1] + PLAYER_HALF_WIDTH - Epsilon)
        min_z == Floor(pos[3] - PLAYER_HALF_WIDTH)
        max_z == Floor(pos[3] + PLAYER_HALF_WIDTH - Epsilon)
        by == Floor(pos[2] - Epsilon)
    IN  \E bx \in min_x..max_x, bz \in min_z..max_z :
            is_solid(ChunkMap_get_block(cm, bx, by, bz))

\* The X (or Z) step of move_with_collision: the coordinate after the step.
ResolveHorizontal(moved, d, collides) ==
    IF ~collides THEN moved
    ELSE IF d > 0 THEN Floor(moved + PLAYER_HALF_WIDTH) * Unit - PLAYER_HALF_WIDTH
    ELSE Floor(moved - PLAYER_HALF_WIDTH) * Unit + Unit + PLAYER_HALF_WIDTH

\* The Y step of move_with_collision: the coordinate after the step.
ResolveVertical(moved, d, collides) ==
    IF ~collides THEN moved
    ELSE IF d > 0 THEN Floor(moved + PLAYER_HEIGHT) * Unit - PLAYER_HEIGHT
    ELSE Floor(moved) * Unit + Unit

move_with_collision(current_pos, delta, cm) ==
    LET px == <<current_pos[1] + delta[1], current_pos[2], current_pos[3]>>
        x1 == ResolveHorizontal(px[1], delta[1], collides_with_world(px, cm))
        py == <<x1, current_pos[2] + delta[2], current_pos[3]>>
        cy == collides_with_world(py, cm)
        y1 == ResolveVertical(py[2], delta[2], cy)
        pz == <<x1, y1, current_pos[3] + delta[3]>>
        z1 == ResolveHorizontal(pz[3], delta[3], collides_with_world(pz, cm))
    IN  [pos |-> <<x1, y1, z1>>,
         hit_floor |-> cy /\ ~(delta[2] > 0),
         hit_ceiling |-> cy /\ delta[2] > 0]

(***************************************************************************)
(* raycast.rs.  A direction is an integer vector d; the source normalizes  *)
(* it, which scales every t by the same positive factor |d| and leaves the *)
(* comparisons between them unchanged.  A t is kept as the numerator n of  *)
(* n / |d[i]|; an axis with d[i] = 0 has t = infinity.  The zero direction *)
(* normalizes to NaN: every comparison with it is false.                   *)
(***************************************************************************)
MAX_REACH == 8

NoHit == [hit |-> FALSE, block_pos |-> <<0, 0, 0>>, normal |-> <<0, 0, 0>>]

\* step with the sign of the direction never looked at.
RayStepUp(d, i) == 1

\* step: 1 when dir[i] >= 0.0, else -1 (NaN >= 0.0 is false).
RayStep(d, i) == IF d = <<0, 0, 0>> THEN -1 ELSE IF d[i] >= 0 THEN 1 ELSE -1

\* The numerator of the initial t_max of axis i, from the cell pos of the origin.
RayTMax(origin, d, pos, i) ==
    IF d[i] >= 0 THEN (pos[i] + 1) * Unit - origin[i] ELSE origin[i] - pos[i] * Unit

\* t_max[i] < t_max[j].
RayLess(d, n, i, j) ==
    IF d = <<0, 0, 0>> THEN FALSE
    ELSE IF d[i] = 0 THEN FALSE
    ELSE IF d[j] = 0 THEN TRUE
    ELSE n[i] * Abs(d[j]) < n[j] * Abs(d[i])

\* The axis the loop advances.
RayAxis(d, n) ==
    IF RayLess(d, n, 1, 2) /\ RayLess(d, n, 1, 3) THEN 1
    ELSE IF RayLess(d, n, 2, 3) THEN 2
    ELSE 3

\* length_squared of (pos - origin) > MAX_REACH * MAX_REACH.
RayTooFar(origin, pos) ==
    (pos[1] * Unit - origin[1]) * (pos[1] * Unit - origin[1])
    + (pos[2] * Unit - origin[2]) * (pos[2] * Unit - origin[2])
    + (pos[3] * Unit - origin[3]) * (pos[3] * Unit - origin[3])
      > MAX_REACH * MAX_REACH * Unit * Unit

RECURSIVE DdaLoop(_, _, _, _, _, _, _)
\* The loop of dda_raycast with `left` iterations to go.
DdaLoop(left, origin, d, pos, n, normal, cm) ==
    IF left = 0 THEN NoHit
    ELSE IF is_solid(ChunkMap_get_block(cm, pos[1], pos[2], pos[3]))
    THEN [hit |-> TRUE, block_pos |-> pos, normal |-> normal]
    ELSE LET a == RayAxis(d, n)
             npos == [pos EXCEPT ![a] = @ + RayStep(d, a)]
             nn == [n EXCEPT ![a] = @ + Unit]
             nnormal == [i \in 1..3 |-> IF i = a THEN -RayStep(d, a) ELSE 0]
         IN  IF RayTooFar(origin, npos) THEN NoHit
             ELSE DdaLoop(left - 1, origin, d, npos, nn, nnormal, cm)

dda_raycast(origin, direction, cm) ==
    LET pos == <<Floor(origin[1]), Floor(origin[2]), Floor(origin[3])>>
        n == [i \in 1..3 |-> RayTMax(origin, direction, pos, i)]
    IN  DdaLoop(MAX_REACH * 3, origin, direction, pos, n, <<0, 0, 0>>, cm)

(***************************************************************************)
(* inventory.rs.  A slot is an Option<ItemStack>: `some` tells Some from   *)
(* None.                                                                   *)
(***************************************************************************)
MAX_STACK == 64

INVENTORY_SLOTS == 36

None == [some |-> FALSE, block |-> "Air", count |-> 0]

Some(stack) == [some |-> TRUE, block |-> stack.block, count |-> stack.count]

\* ItemStack::new
ItemStack_new(block, count) == [block |-> block, count |-> Min(count, MAX_STACK)]

HotbarBlocks == <<"Grass", "Dirt", "Stone", "Sand", "Wood", "Leaves", "Water">>

\* Inventory::default
Inventory_default ==
    [slots |-> [i \in 0..(INVENTORY_SLOTS - 1) |->
                    IF i < Len(HotbarBlocks)
                    THEN Some(ItemStack_new(HotbarBlocks[i + 1], 64))
                    ELSE None],
     active_slot |-> 0]

\* Inventory::active_block: [some, block].
active_block(inv) == inv.slots[inv.active_slot]

\* Inventory::consume_active
consume_active(inv) ==
    LET s == inv.slots[inv.active_slot]
    IN  IF ~s.some THEN inv
        ELSE IF s.count - 1 = 0 THEN [inv EXCEPT !.slots[inv.active_slot] = None]
        ELSE [inv EXCEPT !.slots[inv.active_slot].count = @ - 1]

\* The least member of a non-empty set of slot indices.
FirstOf(S) == CHOOSE i \in S : \A j \in S : i <= j

\* Inventory::find_slot_for: the slot index, or -1 for None.
find_slot_for(inv, block) ==
    LET room == {i \in DOMAIN inv.slots :
                    inv.slots[i].some /\ inv.slots[i].block = block
                    /\ inv.slots[i].count < MAX_STACK}
        empty == {i \in DOMAIN inv.slots : ~inv.slots[i].some}
    IN  IF room # {} THEN FirstOf(room)
        ELSE IF empty # {} THEN FirstOf(empty)
        ELSE -1

\* add_stack with the room of the slot never looked at: the whole count goes
\* into the slot found.
add_stack_unbounded(inv, block, count) ==
    IF count = 0 THEN [inv |-> inv, leftover |-> 0]
    ELSE LET slot_idx == find_slot_for(inv, block)
         IN  IF slot_idx = -1 THEN [inv |-> inv, leftover |-> count]
             ELSE IF inv.slots[slot_idx].some
             THEN [inv |-> [inv EXCEPT !.slots[slot_idx].count = @ + count], leftover |-> 0]
             ELSE [inv |-> [inv EXCEPT !.slots[slot_idx] =
                                    [some |-> TRUE, block |-> block, count |-> count]],
                   leftover |-> 0]

RECURSIVE add_stack(_, _, _)
\* Inventory::add_stack: the inventory afterwards and the leftover count.
add_stack(inv, block, count) ==
    IF count = 0 THEN [inv |-> inv, leftover |-> 0]
    ELSE LET slot_idx == find_slot_for(inv, block)
         IN  IF slot_idx = -1 THEN [inv |-> inv, leftover |-> count]
             ELSE IF inv.slots[slot_idx].some
             THEN LET add == Min(count, MAX_STACK - inv.slots[slot_idx].count)
                  IN  add_stack([inv EXCEPT !.slots[slot_idx].count = @ + add],
                                block, count - add)
             ELSE LET add == Min(count, MAX_STACK)
                  IN  add_stack([inv EXCEPT !.slots[slot_idx] =
                                      Some(ItemStack_new(block, add))],
                                block, count - add)

(***************************************************************************)
(* Vectors of the movement code.  The model's yaw is a multiple of 90      *)
(* degrees and its pitch is 0, so every vector that is normalized has      *)
(* components in {-Unit, 0, Unit}.                                         *)
(***************************************************************************)
Sin(deg) == CASE deg = 0 -> 0 [] deg = 90 -> Unit [] deg = 180 -> 0 [] deg = 270 -> -Unit

Cos(deg) == CASE deg = 0 -> Unit [] deg = 90 -> 0 [] deg = 180 -> -Unit [] deg = 270 -> 0

Sign(a) == IF a > 0 THEN 1 ELSE IF a < 0 THEN -1 ELSE 0

VAdd(u, v) == <<u[1] + v[1], u[2] + v[2], u[3] + v[3]>>

VSub(u, v) == <<u[1] - v[1], u[2] - v[2], u[3] - v[3]>>

\* v * k for a factor k in thousandths.
VScale(v, k) == <<TruncDiv(v[1] * k, Unit), TruncDiv(v[2] * k, Unit), TruncDiv(v[3] * k, Unit)>>

\* Vec3::normalize_or_zero (and normalize of a non-zero vector): 1, 1/sqrt 2
\* or 1/sqrt 3 on each non-zero component.
Normalize(v) ==
    LET k == Cardinality({i \in 1..3 : v[i] # 0})
        m == CASE k = 0 -> 0 [] k = 1 -> 1000 [] k = 2 -> 707 [] k = 3 -> 577
    IN  <<Sign(v[1]) * m, Sign(v[2]) * m, Sign(v[3]) * m>>

\* Vec3::distance(a, b) <= r (r in thousandths), compared as squares.
WithinDistance(a, b, r) ==
    (a[1] - b[1]) * (a[1] - b[1]) + (a[2] - b[2]) * (a[2] - b[2])
    + (a[3] - b[3]) * (a[3] - b[3]) <= r * r

(***************************************************************************)
(* chunk.rs: chunks_in_view_radius.  VIEW_DISTANCE is 8 in the source; the *)
(* model scales the radius down to ViewRadius.                             *)
(***************************************************************************)
ViewRadius == 1

VIEW_DISTANCE == ViewRadius

\* `pos.x as i32`: rounds toward zero.
AsI32(a) == TruncDiv(a, Unit)

chunks_in_view_radius(pos, radius) ==
    LET cx == div_euclid(AsI32(pos[1]), CHUNK_SIZE)
        cz == div_euclid(AsI32(pos[3]), CHUNK_SIZE)
    IN  {<<x, z>> : x \in (cx - radius)..(cx + radius), z \in (cz - radius)..(cz + radius)}

(***************************************************************************)
(* tcp_transport.rs: TcpServerTransport as the tick thread uses it.        *)
(* A server view sv holds the session ws, the disk, the writer map         *)
(* (writers: the client ids that have one), the connections whose socket   *)
(* is closed (a write to one fails), the calls made so far in this step    *)
(* and whether the step panicked.                                          *)
(***************************************************************************)
\* write_message to c succeeds.
WriteOk(sv, c) == c \in sv.writers /\ c \notin sv.closed

\* send with the client kept in the writer map when the write fails.
send_keeps_writer(sv, client_id, msg) ==
    [sv EXCEPT !.calls = Append(@, [op |-> "send", to |-> client_id, msg |-> msg,
                                    wrote |-> IF WriteOk(sv, client_id)
                                              THEN {client_id} ELSE {}])]

send(sv, client_id, msg) ==
    [sv EXCEPT !.calls = Append(@, [op |-> "send", to |-> client_id, msg |-> msg,
                                    wrote |-> IF WriteOk(sv, client_id)
                                              THEN {client_id} ELSE {}]),
               !.writers = IF client_id \in sv.closed THEN @ \ {client_id} ELSE @]

broadcast(sv, msg) ==
    [sv EXCEPT !.calls = Append(@, [op |-> "broadcast", to |-> -1, msg |-> msg,
                                    wrote |-> sv.writers \ sv.closed]),
               !.writers = @ \ sv.closed]

broadcast_except(sv, exclude_id, msg) ==
    [sv EXCEPT !.calls = Append(@, [op |-> "broadcast_except", to |-> exclude_id,
                                    msg |-> msg,
                                    wrote |-> (sv.writers \ {exclude_id}) \ sv.closed]),
               !.writers = @ \ (sv.closed \ {exclude_id})]

disconnect(sv, client_id) ==
    [sv EXCEPT !.calls = Append(@, [op |-> "disconnect", to |-> client_id,
                                    msg |-> [type |-> "none"], wrote |-> {}]),
               !.writers = @ \ {client_id}]

RECURSIVE SendEach(_, _, _)
\* `for id in ids { transport.send(id, msg) }`.
SendEach(sv, ids, msg) ==
    IF ids = {} THEN sv
    ELSE LET id == CHOOSE i \in ids : \A j \in ids : i <= j
         IN  SendEach(send(sv, id, msg), ids \ {id}, msg)

(***************************************************************************)
(* world_session.rs                                                        *)
(***************************************************************************)
\* PlayerState::default
PlayerState_default ==
    [position |-> <<64 * Unit, 40 * Unit - 1700, 64 * Unit>>, velocity_y |-> 0,
     grounded |-> FALSE, yaw |-> 0, pitch |-> 0, game_mode |-> "Creative"]

\* The member of a singleton: Only({e(x) : x \in {v}}) is e with x bound to the
\* value v, computed once.
Only(S) == CHOOSE x \in S : TRUE

\* m with key k mapped to v (HashMap::insert).
Insert(m, k, v) == [x \in (DOMAIN m) \cup {k} |-> IF x = k THEN v ELSE m[x]]

\* m without key k (HashMap::remove).
Remove(m, k) == [x \in (DOMAIN m) \ {k} |-> m[x]]

\* A chunk file that ensure_chunk_loaded accepts: readable, deserializable and of
\* BLOCKS_PER_CHUNK entries.
ChunkFileOk(disk, pos) == pos \in DOMAIN disk.chunks /\ disk.chunks[pos].valid

\* ensure_chunk_loaded taking the blocks of whatever file is there.
ensure_chunk_loaded_unchecked(sv, pos) ==
    IF pos \in DOMAIN sv.ws.chunk_map THEN sv
    ELSE IF pos \in DOMAIN sv.disk.chunks
    THEN [sv EXCEPT !.ws.chunk_map =
              Insert(@, pos, [blocks |-> sv.disk.chunks[pos].blocks, dirty |-> FALSE])]
    ELSE [sv EXCEPT !.ws.chunk_map = Insert(@, pos, GeneratedChunk(pos))]

ensure_chunk_loaded(sv, pos) ==
    IF pos \in DOMAIN sv.ws.chunk_map THEN sv
    ELSE IF ChunkFileOk(sv.disk, pos)
    THEN [sv EXCEPT !.ws.chunk_map =
              Insert(@, pos, [blocks |-> sv.disk.chunks[pos].blocks, dirty |-> FALSE])]
    ELSE [sv EXCEPT !.ws.chunk_map = Insert(@, pos, GeneratedChunk(pos))]

\* A save that marks the chunks clean and writes only the metadata.
save_to_disk_unwritten(sv) ==
    [sv EXCEPT
        !.disk.meta = [present |-> TRUE, seed |-> sv.ws.seed, tick |-> sv.ws.tick,
                       next_entity_id |-> sv.ws.next_entity_id],
        !.ws.chunk_map = [pos \in DOMAIN @ |-> [@[pos] EXCEPT !.dirty = FALSE]]]

save_to_disk(sv) ==
    LET cm == sv.ws.chunk_map
        dirty == {pos \in DOMAIN cm : cm[pos].dirty}
    IN  [sv EXCEPT
            !.disk = [meta |-> [present |-> TRUE, seed |-> sv.ws.seed, tick |-> sv.ws.tick,
                                next_entity_id |-> sv.ws.next_entity_id],
                      chunks |-> [pos \in (DOMAIN sv.disk.chunks) \cup dirty |->
                                     IF pos \in dirty
                                     THEN [blocks |-> cm[pos].blocks, valid |-> TRUE]
                                     ELSE sv.disk.chunks[pos]]],
            !.ws.chunk_map = [pos \in DOMAIN cm |-> [cm[pos] EXCEPT !.dirty = FALSE]]]

add_player(ws, id, name) ==
    [ws EXCEPT !.players = Insert(@, id, PlayerState_default),
               !.player_names = Insert(@, id, name),
               !.inventories = Insert(@, id, Inventory_default),
               !.loaded_chunks_per_player = Insert(@, id, {})]

remove_player(ws, id) ==
    [ws EXCEPT !.players = Remove(@, id),
               !.player_names = Remove(@, id),
               !.inventories = Remove(@, id),
               !.loaded_chunks_per_player = Remove(@, id)]

\* WorldSession::new
WorldSession_new(auth_code) ==
    [seed |-> 7, tick |-> 0, auth_code |-> auth_code,
     chunk_map |-> [pos \in {} |-> Chunk_new],
     players |-> [id \in {} |-> PlayerState_default],
     player_names |-> [id \in {} |-> ""],
     inventories |-> [id \in {} |-> Inventory_default],
     dropped_items |-> [id \in {} |-> 0],
     next_entity_id |-> 1,
     loaded_chunks_per_player |-> [id \in {} |-> {}],
     ticks_since_save |-> 0]

(***************************************************************************)
(* systems.rs: server_process_messages, one handler per ClientMessage.     *)
(* Each handler maps the server view before the message to the view after  *)
(* it.                                                                     *)
(***************************************************************************)
ChunkData(pos, blocks) == [type |-> "ChunkData", pos |-> pos, blocks |-> blocks]

\* The least chunk position of a set, in the order of the Vec that
\* chunks_in_view_radius builds (x outer, z inner).
FirstChunk(S) ==
    CHOOSE p \in S : \A q \in S : p[1] < q[1] \/ (p[1] = q[1] /\ p[2] <= q[2])

RECURSIVE SendChunks(_, _, _)
\* `for chunk_pos in chunks { ensure_chunk_loaded; send ChunkData }`.
SendChunks(sv, client_id, chunks) ==
    IF chunks = {} THEN sv
    ELSE LET pos == FirstChunk(chunks)
         IN  Only({SendChunks(sent, client_id, chunks \ {pos}) :
                   sent \in {send(loaded, client_id,
                                  ChunkData(pos, loaded.ws.chunk_map[pos].blocks)) :
                             loaded \in {ensure_chunk_loaded(sv, pos)}}})

RECURSIVE SendJoined(_, _, _, _)
\* `for (id, name, pos) in existing_players { send(client_id, PlayerJoined) }`.
SendJoined(sv, client_id, ids, old) ==
    IF ids = {} THEN sv
    ELSE LET id == CHOOSE i \in ids : \A j \in ids : i <= j
         IN  SendJoined(send(sv, client_id,
                             [type |-> "PlayerJoined", player_id |-> id,
                              name |-> old.player_names[id],
                              position |-> old.players[id].position]),
                        client_id, ids \ {id}, old)

\* The reject branch of Connect.
RejectConnect(sv, client_id) ==
    disconnect(send(sv, client_id,
                    [type |-> "ConnectRejected", reason |-> "Invalid auth code"]),
               client_id)

\* The accept branch of Connect.
AcceptConnect(sv, client_id, player_name) ==
    LET old == sv.ws
        added == [sv EXCEPT !.ws = add_player(old, client_id, player_name)]
        position == added.ws.players[client_id].position
        s1 == send(added, client_id, [type |-> "ConnectAccepted", player_id |-> client_id])
        s2 == send(s1, client_id,
                   [type |-> "InventoryUpdate",
                    slots |-> s1.ws.inventories[client_id].slots,
                    active_slot |-> s1.ws.inventories[client_id].active_slot])
        s3 == SendJoined(s2, client_id, DOMAIN old.players, old)
        s4 == SendEach(s3, (DOMAIN s3.ws.players) \ {client_id},
                       [type |-> "PlayerJoined", player_id |-> client_id,
                        name |-> player_name, position |-> position])
        s5 == send(s4, client_id,
                   [type |-> "GameModeChanged",
                    mode |-> s4.ws.players[client_id].game_mode])
        initial_chunks == chunks_in_view_radius(position, VIEW_DISTANCE)
        s6 == SendChunks(s5, client_id, initial_chunks)
    IN  [s6 EXCEPT !.ws.loaded_chunks_per_player = Insert(@, client_id, initial_chunks)]

\* Connect with the auth code never compared.
ConnectUnchecked(sv, client_id, msg) == AcceptConnect(sv, client_id, msg.player_name)

HandleConnect(sv, client_id, msg) ==
    IF msg.auth_code # sv.ws.auth_code
    THEN RejectConnect(sv, client_id)
    ELSE AcceptConnect(sv, client_id, msg.player_name)

\* The Disconnect arm without its save.
HandleDisconnectUnsaved(sv, client_id, msg) ==
    LET removed == [sv EXCEPT !.ws = remove_player(@, client_id)]
    IN  SendEach(removed, DOMAIN removed.ws.players,
                 [type |-> "PlayerLeft", player_id |-> client_id])

HandleDisconnect(sv, client_id, msg) ==
    LET removed == [sv EXCEPT !.ws = remove_player(@, client_id)]
        told == SendEach(removed, DOMAIN removed.ws.players,
                         [type |-> "PlayerLeft", player_id |-> client_id])
    IN  IF DOMAIN told.ws.players = {} THEN save_to_disk(told) ELSE told

\* `speed` of the InputCommand handler, in blocks per second.
MoveSpeed == 12

\* The sum of the direction vectors of the pressed keys.
KeySum(keys, fwd, rgt, up) ==
    LET z == <<0, 0, 0>>
    IN  VAdd(VAdd(VAdd(IF "forward" \in keys THEN fwd ELSE z,
                       IF "backward" \in keys THEN VSub(z, fwd) ELSE z),
                  VAdd(IF "right" \in keys THEN rgt ELSE z,
                       IF "left" \in keys THEN VSub(z, rgt) ELSE z)),
             VAdd(IF "jump" \in keys THEN up ELSE z,
                  IF "sneak" \in keys THEN VSub(z, up) ELSE z))

\* load_or_create(world_path, ..): the session of world.dat if the file is
\* there and deserializes (load_from_disk: chunks are loaded on demand, no
\* players, no dropped items), else a new session.
load_or_create(d, auth_code) ==
    IF d.meta.present
    THEN [WorldSession_new(auth_code) EXCEPT !.seed = d.meta.seed, !.tick = d.meta.tick,
                                             !.next_entity_id = d.meta.next_entity_id]
    ELSE WorldSession_new(auth_code)

\* The forward vector of a yaw and pitch.
ForwardOf(yaw, pitch) ==
    Normalize(<<TruncDiv(-Sin(yaw) * Cos(pitch), Unit), -Sin(pitch),
                TruncDiv(-Cos(yaw) * Cos(pitch), Unit)>>)

\* The right vector of a yaw.
RightOf(yaw) == Normalize(<<Cos(yaw), 0, -Sin(yaw)>>)

\* The player after the movement of one InputCommand (lines 197-287).
MovePlayer(p, msg, cm) ==
    LET fwd == ForwardOf(msg.yaw, msg.pitch)
        rgt == RightOf(msg.yaw)
        turned == [p EXCEPT !.yaw = msg.yaw, !.pitch = msg.pitch]
        creative == turned.game_mode = "Creative"
        \* Creative
        velocity == Normalize(KeySum(msg.keys, fwd, rgt, <<0, Unit, 0>>))
        \* Survival
        fwd_xz == Normalize(<<fwd[1], 0, fwd[3]>>)
        rgt_xz == Normalize(<<rgt[1], 0, rgt[3]>>)
        horizontal == Normalize(KeySum(msg.keys \ {"jump", "sneak"}, fwd_xz, rgt_xz,
                                       <<0, 0, 0>>))
        on_ground == is_on_ground(turned.position, cm)
        jumps == "jump" \in msg.keys /\ on_ground
        vy0 == IF jumps THEN JUMP_VELOCITY ELSE turned.velocity_y
        vy == Max(vy0 - TruncDiv(GRAVITY * msg.dt, 1000), -TERMINAL_VELOCITY)
        delta == IF creative
                 THEN VScale(velocity, MoveSpeed * msg.dt)
                 ELSE <<TruncDiv(horizontal[1] * MoveSpeed * msg.dt, Unit),
                        TruncDiv(vy * msg.dt, 1000),
                        TruncDiv(horizontal[3] * MoveSpeed * msg.dt, Unit)>>
        readied == IF creative THEN turned
                   ELSE [turned EXCEPT !.grounded = on_ground /\ ~jumps,
                                       !.velocity_y = vy]
    IN  Only({IF r.game_mode = "Creative"
              THEN [r EXCEPT !.position = moved.pos]
              ELSE [r EXCEPT
                       !.position = moved.pos,
                       !.velocity_y = IF moved.hit_floor \/ moved.hit_ceiling THEN 0 ELSE @,
                       !.grounded = IF moved.hit_floor THEN TRUE ELSE @] :
              r \in {readied}, moved \in {move_with_collision(p.position, delta, cm)}})

HandleInputCommand(sv, client_id, msg) ==
    IF client_id \notin DOMAIN sv.ws.players THEN sv
    ELSE Only({SendEach([sv EXCEPT !.ws.players[client_id] = player],
                        (DOMAIN sv.ws.players) \ {client_id},
                        [type |-> "PlayerPositionUpdate", player_id |-> client_id,
                         position |-> player.position, yaw |-> player.yaw,
                         pitch |-> player.pitch]) :
               player \in {MovePlayer(sv.ws.players[client_id], msg, sv.ws.chunk_map)}})

\* The centre of a block cell.
BlockCentre(cell) ==
    <<cell[1] * Unit + 500, cell[2] * Unit + 500, cell[3] * Unit + 500>>

DroppedItemSpawned(id, item) ==
    [type |-> "DroppedItemSpawned", id |-> id, stack |-> item.stack,
     position |-> item.position, velocity |-> item.velocity]

\* `dropped_items.insert(next_entity_id, item)`, the id counter advanced, and the
\* spawn announced.
\* The dropped item inserted with next_entity_id left as it is.
SpawnDroppedItemSameId(sv, client_id, item) ==
    LET entity_id == sv.ws.next_entity_id
        spawned == [sv EXCEPT !.ws.dropped_items = Insert(@, entity_id, item)]
    IN  broadcast_except(spawned, client_id, DroppedItemSpawned(entity_id, item))

SpawnDroppedItem(sv, client_id, item) ==
    LET entity_id == sv.ws.next_entity_id
        spawned == [sv EXCEPT !.ws.next_entity_id = @ + 1,
                              !.ws.dropped_items = Insert(@, entity_id, item)]
    IN  broadcast_except(spawned, client_id, DroppedItemSpawned(entity_id, item))

\* BlockAction::Break on a hit.
BreakBlock(sv, client_id, hit, game_mode) ==
    LET p == hit.block_pos
        old_block == ChunkMap_get_block(sv.ws.chunk_map, p[1], p[2], p[3])
        cleared == [sv EXCEPT !.ws.chunk_map = ChunkMap_set_block(@, p[1], p[2], p[3], "Air")]
        told == broadcast_except(cleared, client_id,
                                 [type |-> "BlockChanged", position |-> p,
                                  new_type |-> "Air"])
    IN  IF game_mode = "Survival"
        THEN SpawnDroppedItem(told, client_id,
                              [stack |-> ItemStack_new(old_block, 1),
                               position |-> BlockCentre(p),
                               velocity |-> <<0, 4 * Unit, 0>>,
                               grounded |-> FALSE, age |-> 0])
        ELSE told

\* BlockAction::Place on a hit.
PlaceBlock(sv, client_id, hit, game_mode) ==
    IF client_id \notin DOMAIN sv.ws.inventories THEN sv
    ELSE LET inv == sv.ws.inventories[client_id]
             block == active_block(inv)
             place_pos == VAdd(hit.block_pos, hit.normal)
             written == [sv EXCEPT !.ws.chunk_map =
                             ChunkMap_set_block(@, place_pos[1], place_pos[2],
                                                place_pos[3], block.block)]
             used == IF game_mode = "Survival"
                     THEN [written EXCEPT !.ws.inventories[client_id] = consume_active(@)]
                     ELSE written
         IN  IF ~block.some THEN sv
             ELSE broadcast_except(used, client_id,
                                   [type |-> "BlockChanged", position |-> place_pos,
                                    new_type |-> block.block])

HandleBlockInteraction(sv, client_id, msg) ==
    LET hit == dda_raycast(msg.origin, msg.direction, sv.ws.chunk_map)
        game_mode == IF client_id \in DOMAIN sv.ws.players
                     THEN sv.ws.players[client_id].game_mode
                     ELSE "Creative"
    IN  IF ~hit.hit THEN sv
        ELSE IF msg.action = "Break" THEN BreakBlock(sv, client_id, hit, game_mode)
        ELSE PlaceBlock(sv, client_id, hit, game_mode)

\* `inv.slots[slot]`: indexing the array of 36 slots panics past its end.
SlotInBounds(slot) == slot < INVENTORY_SLOTS

\* A drop that leaves the slot as it was and creates the item all the same.
HandleDropItemKept(sv, client_id, msg) ==
    IF client_id \notin DOMAIN sv.ws.players \/ client_id \notin DOMAIN sv.ws.inventories
    THEN sv
    ELSE IF ~SlotInBounds(msg.slot) THEN [sv EXCEPT !.panicked = TRUE]
    ELSE LET stack == sv.ws.inventories[client_id].slots[msg.slot]
             drop_count == Min(msg.count, stack.count)
         IN  IF ~stack.some \/ drop_count = 0 THEN sv
             ELSE SpawnDroppedItem(sv, client_id,
                                   [stack |-> ItemStack_new(stack.block, drop_count),
                                    position |-> sv.ws.players[client_id].position,
                                    velocity |-> <<0, 0, 0>>,
                                    grounded |-> FALSE, age |-> 0])

HandleDropItem(sv, client_id, msg) ==
    IF client_id \notin DOMAIN sv.ws.players \/ client_id \notin DOMAIN sv.ws.inventories
    THEN sv
    ELSE IF ~SlotInBounds(msg.slot) THEN [sv EXCEPT !.panicked = TRUE]
    ELSE LET player_pos == sv.ws.players[client_id].position
             stack == sv.ws.inventories[client_id].slots[msg.slot]
             drop_count == Min(msg.count, stack.count)
             fwd_xz == Normalize(<<msg.direction[1], 0, msg.direction[3]>>)
             drop_pos == VAdd(VAdd(player_pos, <<0, 1700, 0>>), VScale(fwd_xz, 500))
             drop_velocity == VAdd(VScale(msg.direction, 3000), <<0, 2 * Unit, 0>>)
             taken == IF drop_count >= stack.count
                      THEN [sv EXCEPT !.ws.inventories[client_id].slots[msg.slot] = None]
                      ELSE [sv EXCEPT !.ws.inventories[client_id].slots[msg.slot].count =
                                          @ - drop_count]
         IN  IF ~stack.some \/ drop_count = 0 THEN sv
             ELSE SpawnDroppedItem(taken, client_id,
                                   [stack |-> ItemStack_new(stack.block, drop_count),
                                    position |-> drop_pos, velocity |-> drop_velocity,
                                    grounded |-> FALSE, age |-> 0])

HandleToggleGameMode(sv, client_id, msg) ==
    IF client_id \notin DOMAIN sv.ws.players THEN sv
    ELSE LET mode == IF sv.ws.players[client_id].game_mode = "Creative"
                     THEN "Survival" ELSE "Creative"
             toggled == [sv EXCEPT !.ws.players[client_id].game_mode = mode,
                                   !.ws.players[client_id].velocity_y = 0]
         IN  send(toggled, client_id, [type |-> "GameModeChanged", mode |-> mode])

\* One iteration of the loop of server_process_messages: the match on msg.
HandleMessage(sv, client_id, msg) ==
    CASE msg.type = "Connect" -> HandleConnect(sv, client_id, msg)
      [] msg.type = "Disconnect" -> HandleDisconnect(sv, client_id, msg)
      [] msg.type = "InputCommand" -> HandleInputCommand(sv, client_id, msg)
      [] msg.type = "BlockInteraction" -> HandleBlockInteraction(sv, client_id, msg)
      [] msg.type = "DropItem" -> HandleDropItem(sv, client_id, msg)
      [] msg.type = "ToggleGameMode" -> HandleToggleGameMode(sv, client_id, msg)

(***************************************************************************)
(* systems.rs: server_stream_chunks.                                       *)
(***************************************************************************)
MAX_CHUNKS_PER_PLAYER_PER_TICK == 4

\* The player's streamed set: `loaded_chunks_per_player.entry(id).or_default()`.
LoadedOf(ws, id) ==
    IF id \in DOMAIN ws.loaded_chunks_per_player
    THEN ws.loaded_chunks_per_player[id] ELSE {}

ToSend(ws, id) ==
    chunks_in_view_radius(ws.players[id].position, VIEW_DISTANCE) \ LoadedOf(ws, id)

ToUnload(ws, id) ==
    LoadedOf(ws, id) \ chunks_in_view_radius(ws.players[id].position, VIEW_DISTANCE)

\* `to_send.iter().take(MAX)`: to_send is collected from a HashSet difference, so
\* any MAX of its members may come first.
TakeSets(S) ==
    {T \in SUBSET S : Cardinality(T) = Min(Cardinality(S), MAX_CHUNKS_PER_PLAYER_PER_TICK)}

RECURSIVE SendUnloads(_, _, _)
SendUnloads(sv, id, chunks) ==
    IF chunks = {} THEN sv
    ELSE LET pos == FirstChunk(chunks)
         IN  Only({SendUnloads(sent, id, chunks \ {pos}) :
                   sent \in {send(sv, id, [type |-> "ChunkUnload", pos |-> pos])}})

\* The body of the loop with the player's set left without the chunks sent.
StreamPlayerUnrecorded(sv, id, sent, to_unload) ==
    LET s1 == SendChunks(sv, id, sent)
        s2 == SendUnloads(s1, id, to_unload)
    IN  [s2 EXCEPT !.ws.loaded_chunks_per_player =
              Insert(@, id, LoadedOf(sv.ws, id) \ to_unload)]

\* The body of the loop over the players, for player id sending `sent`.
StreamPlayer(sv, id, sent, to_unload) ==
    LET s1 == SendChunks(sv, id, sent)
        s2 == SendUnloads(s1, id, to_unload)
    IN  [s2 EXCEPT !.ws.loaded_chunks_per_player =
              Insert(@, id, (LoadedOf(sv.ws, id) \cup sent) \ to_unload)]

RECURSIVE StreamPlayers(_, _, _, _)
\* The loop over player_positions (collected before the loop).
StreamPlayers(sv, ids, pick, before) ==
    IF ids = {} THEN sv
    ELSE LET id == CHOOSE i \in ids : \A j \in ids : i <= j
         IN  StreamPlayers(StreamPlayer(sv, id, pick[id], ToUnload(before, id)),
                           ids \ {id}, pick, before)

\* The eviction with the dirty chunks dropped as they are, nothing written.
EvictChunksUnsaved(sv) ==
    LET cm == sv.ws.chunk_map
        all_loaded == UNION {sv.ws.loaded_chunks_per_player[id] :
                                id \in DOMAIN sv.ws.loaded_chunks_per_player}
    IN  [sv EXCEPT !.ws.chunk_map = [pos \in (DOMAIN cm) \cap all_loaded |-> cm[pos]]]

\* Lines 712-740: chunks no player has streamed leave memory, dirty ones are
\* written first.
EvictChunks(sv) ==
    LET cm == sv.ws.chunk_map
        all_loaded == UNION {sv.ws.loaded_chunks_per_player[id] :
                                id \in DOMAIN sv.ws.loaded_chunks_per_player}
        to_remove == (DOMAIN cm) \ all_loaded
        written == {pos \in to_remove : cm[pos].dirty}
    IN  [sv EXCEPT
            !.disk.chunks = [pos \in (DOMAIN sv.disk.chunks) \cup written |->
                                IF pos \in written
                                THEN [blocks |-> cm[pos].blocks, valid |-> TRUE]
                                ELSE sv.disk.chunks[pos]],
            !.ws.chunk_map = [pos \in (DOMAIN cm) \ to_remove |-> cm[pos]]]

\* The choices of `sent` the stage can make, one set per player.
StreamPicks(ws) ==
    LET ids == DOMAIN ws.players
    IN  {pick \in [ids -> UNION {TakeSets(ToSend(ws, id)) : id \in ids}] :
            \A id \in ids : pick[id] \in TakeSets(ToSend(ws, id))}

server_stream_chunks(sv, pick) ==
    Only({EvictChunks(streamed) :
          streamed \in {StreamPlayers(sv, DOMAIN sv.ws.players, pick, sv.ws)}})

(***************************************************************************)
(* systems.rs: server_dropped_item_physics.                                *)
(***************************************************************************)
ItemGravity == 32000

ItemTerminalVelocity == 50000

\* dropped_item_scale / 2.0 + 0.02
ItemRest == 170

Solid(cm, bx, by, bz) == is_solid(ChunkMap_get_block(cm, bx, by, bz))

\* v * dt
Travel(v, dt) == TruncDiv(v * dt, 1000)

\* The grounded branch.
GroundedItem(item, dt, cm) ==
    LET factor == Max(1000 - 5 * dt, 0)
        vx == TruncDiv(item.velocity[1] * factor, 1000)
        vz == TruncDiv(item.velocity[3] * factor, 1000)
        x == item.position[1]
        y == item.position[2]
        z == item.position[3]
        new_x == x + Travel(vx, dt)
        by == Floor(y - 10)
        free_x == ~Solid(cm, Floor(new_x), by + 1, Floor(z))
        x1 == IF free_x THEN new_x ELSE x
        vx1 == IF free_x THEN vx ELSE 0
        new_z == z + Travel(vz, dt)
        free_z == ~Solid(cm, Floor(x1), by + 1, Floor(new_z))
        z1 == IF free_z THEN new_z ELSE z
        vz1 == IF free_z THEN vz ELSE 0
    IN  IF Abs(vx) < 10 /\ Abs(vz) < 10
        THEN [item EXCEPT !.velocity = <<0, 0, 0>>]
        ELSE [item EXCEPT !.velocity = <<vx1, item.velocity[2], vz1>>,
                          !.position = <<x1, y, z1>>]

\* The airborne branch.
AirborneItem(item, dt, cm) ==
    LET vy == Max(item.velocity[2] - Travel(ItemGravity, dt), -ItemTerminalVelocity)
        x == item.position[1]
        y == item.position[2]
        z == item.position[3]
        new_x == x + Travel(item.velocity[1], dt)
        by == Floor(y)
        hit_x == Solid(cm, Floor(new_x), by, Floor(z))
        x1 == IF hit_x THEN x ELSE new_x
        vx1 == IF hit_x THEN 0 ELSE item.velocity[1]
        new_z == z + Travel(item.velocity[3], dt)
        hit_z == Solid(cm, Floor(x1), by, Floor(new_z))
        z1 == IF hit_z THEN z ELSE new_z
        vz1 == IF hit_z THEN 0 ELSE item.velocity[3]
        new_y == y + Travel(vy, dt)
        check_y == Floor(new_y - 10)
        lands == vy <= 0 /\ Solid(cm, Floor(x1), check_y, Floor(z1))
    IN  IF lands
        THEN [item EXCEPT !.position = <<x1, (check_y + 1) * Unit + ItemRest, z1>>,
                          !.velocity = <<vx1, 0, vz1>>,
                          !.grounded = TRUE]
        ELSE [item EXCEPT !.position = <<x1, new_y, z1>>,
                          !.velocity = <<vx1, vy, vz1>>]

\* The body of the loop over the dropped items.
StepItem(item, dt, cm) ==
    LET aged == [item EXCEPT !.age = @ + dt]
    IN  IF aged.grounded THEN GroundedItem(aged, dt, cm) ELSE AirborneItem(aged, dt, cm)

server_dropped_item_physics(sv, dt) ==
    [sv EXCEPT !.ws.dropped_items =
         [id \in DOMAIN @ |-> StepItem(@[id], dt, sv.ws.chunk_map)]]

(***************************************************************************)
(* systems.rs: server_pickup_items.                                        *)
(***************************************************************************)
PickupRadius == 2000

PickupDelay == 1500

\* The players the first loop can pair with the item: within the radius and
\* with a slot for its block (the loop takes the first such player its
\* iteration of the players map meets).
PickupPlayers(ws, entity_id) ==
    LET item == ws.dropped_items[entity_id]
    IN  IF item.age < PickupDelay THEN {}
        ELSE {c \in DOMAIN ws.players :
                /\ WithinDistance(ws.players[c].position, item.position, PickupRadius)
                /\ c \in DOMAIN ws.inventories
                /\ find_slot_for(ws.inventories[c], item.stack.block) # -1}

RECURSIVE CollectedOf(_, _)
\* The values `collected` can have: one pair per item that has a player, in the
\* order the iteration of dropped_items meets them.
CollectedOf(ws, items) ==
    IF items = {} THEN {<<>>}
    ELSE UNION {UNION {{<<<<e, c>>>> \o rest : rest \in CollectedOf(ws, items \ {e})} :
                          c \in PickupPlayers(ws, e)} : e \in items}

Collected(ws) ==
    CollectedOf(ws, {e \in DOMAIN ws.dropped_items : PickupPlayers(ws, e) # {}})

\* The body of the second loop for one pair.
CollectItem(sv, entity_id, client_id) ==
    IF entity_id \notin DOMAIN sv.ws.dropped_items THEN sv
    ELSE LET item == sv.ws.dropped_items[entity_id]
             removed == [sv EXCEPT !.ws.dropped_items = Remove(@, entity_id)]
         IN  IF client_id \notin DOMAIN sv.ws.inventories THEN removed
             ELSE LET inv == add_stack(sv.ws.inventories[client_id],
                                       item.stack.block, item.stack.count).inv
                      added == [removed EXCEPT !.ws.inventories[client_id] = inv]
                      told == broadcast(added, [type |-> "DroppedItemRemoved",
                                                id |-> entity_id])
                  IN  send(told, client_id,
                           [type |-> "InventoryUpdate", slots |-> inv.slots,
                            active_slot |-> inv.active_slot])

RECURSIVE CollectAll(_, _)
CollectAll(sv, collected) ==
    IF collected = <<>> THEN sv
    ELSE CollectAll(CollectItem(sv, collected[1][1], collected[1][2]), Tail(collected))

server_pickup_items(sv, collected) == CollectAll(sv, collected)

(***************************************************************************)
(* systems.rs: server_auto_save.                                           *)
(***************************************************************************)
AUTO_SAVE_INTERVAL == 600

\* The autosave that saves and leaves the counter as it is.
server_auto_save_unreset(sv) ==
    LET counted == [sv EXCEPT !.ws.ticks_since_save = @ + 1]
    IN  IF counted.ws.ticks_since_save >= AUTO_SAVE_INTERVAL
        THEN save_to_disk(counted)
        ELSE counted

server_auto_save(sv) ==
    LET counted == [sv EXCEPT !.ws.ticks_since_save = @ + 1]
    IN  IF counted.ws.ticks_since_save >= AUTO_SAVE_INTERVAL
        THEN save_to_disk([counted EXCEPT !.ws.ticks_since_save = 0])
        ELSE counted

(***************************************************************************)
(* The state.                                                              *)
(*   session, disk      the WorldSession and the world directory           *)
(*   incoming, clients  TcpServerTransport: the shared inbox and the ids   *)
(*                      of the writer map                                  *)
(*   next_id, readers   the acceptor's counter; the reader thread of each  *)
(*                      connection: "reading", or "removing" between its   *)
(*                      push of the Disconnect and its removal of the      *)
(*                      writer                                             *)
(*   closed             the connections whose socket is closed             *)
(*   full               the connections whose peer has stopped reading and *)
(*                      whose send buffer is full: a write to one blocks   *)
(*   stage, messages    the tick thread: the system it runs next and the   *)
(*                      rest of the batch receive() returned               *)
(*   panicked           a system panicked: the app is gone                 *)
(*   handled, calls     the message the last step handled and the          *)
(*                      transport calls the last step made                 *)
(*   nread, ticks       the messages the readers have read and the ticks   *)
(*                      the pipeline has begun since the initial state     *)
(*   rejected           the clients a ConnectRejected was sent to          *)
(*   held, resent       per client, the chunks whose ChunkData was written *)
(*                      to it with no ChunkUnload since; the <<client,     *)
(*                      chunk>> written again while held                   *)
(*   client             the client's local state                           *)
(*   probe              the last call of a pure function and its result    *)
(***************************************************************************)
VARIABLES session, disk, incoming, clients, next_id, readers, closed,
          stage, messages, panicked, handled, calls, nread, ticks, rejected, held, resent,
          client, probe, full

vars == <<session, disk, incoming, clients, next_id, readers, closed,
          stage, messages, panicked, handled, calls, nread, ticks, rejected, held, resent,
          client, probe, full>>

MaxConns == 2

MaxMsgs == 2

MaxTicks == 2

AuthCode == "ABC123"

NoMessage == [type |-> "none"]

NoHandled == [client_id |-> -1, msg |-> NoMessage]

Unused == [op |-> "none"]

EmptyDisk ==
    [meta |-> [present |-> FALSE, seed |-> 0, tick |-> 0, next_entity_id |-> 0],
     chunks |-> [pos \in {} |-> [blocks |-> Chunk_new.blocks, valid |-> TRUE]]]

\* The server view of the current state, with no call made yet.
View ==
    [ws |-> session, disk |-> disk, writers |-> clients, closed |-> closed,
     calls |-> <<>>, panicked |-> FALSE]

RECURSIVE HeldAfter(_, _)
\* held after the calls cs: a ChunkData written to a client adds the chunk, a
\* ChunkUnload written to it takes the chunk away.
HeldAfter(h, cs) ==
    IF cs = <<>> THEN h
    ELSE LET c == cs[1]
             to == c.wrote
         IN  HeldAfter([id \in DOMAIN h |->
                           IF id \notin to THEN h[id]
                           ELSE IF c.msg.type = "ChunkData" THEN h[id] \cup {c.msg.pos}
                           ELSE IF c.msg.type = "ChunkUnload" THEN h[id] \ {c.msg.pos}
                           ELSE h[id]],
                       Tail(cs))

RECURSIVE ResentIn(_, _)
\* The <<client, chunk>> of the ChunkData that cs writes to a client holding the chunk.
ResentIn(h, cs) ==
    IF cs = <<>> THEN {}
    ELSE LET c == cs[1]
         IN  (IF c.msg.type = "ChunkData"
              THEN {<<id, c.msg.pos>> : id \in {i \in c.wrote : c.msg.pos \in h[i]}}
              ELSE {})
             \cup ResentIn(HeldAfter(h, <<c>>), Tail(cs))

\* write_all on a blocking socket whose send buffer is full does not return
\* before the peer reads: a step that leaves the server view sv is waiting as
\* long as one of its writes goes to such a socket.
WriteBlocks(sv) == \E i \in DOMAIN sv.calls : sv.calls[i].wrote \cap full # {}

\* The step of the tick thread that leaves the server view sv.
Commit(sv) ==
    /\ session' = sv.ws
    /\ disk' = sv.disk
    /\ clients' = sv.writers
    /\ calls' = sv.calls
    /\ panicked' = sv.panicked
    /\ rejected' = rejected \cup {sv.calls[i].to : i \in {j \in DOMAIN sv.calls :
                                       sv.calls[j].msg.type = "ConnectRejected"}}
    /\ ~WriteBlocks(sv)
    /\ held' = HeldAfter(held, sv.calls)
    /\ resent' = resent \cup ResentIn(held, sv.calls)

(***************************************************************************)
(* The messages a client can send.                                         *)
(***************************************************************************)
Connects ==
    {[type |-> "Connect", auth_code |-> a, player_name |-> "Bob"] : a \in {AuthCode, "WRONG"}}

InputCommands(seq) ==
    {[type |-> "InputCommand", sequence |-> seq, dt |-> 2000, yaw |-> 90, pitch |-> 0,
      keys |-> {"forward"}],
     [type |-> "InputCommand", sequence |-> seq, dt |-> 50, yaw |-> 0, pitch |-> 0,
      keys |-> {"forward", "right", "jump"}]}

\* An eye position in the air two cells above the terrain of the spawn column.
RayOrigin == <<64500, 19500, 64500>>

BlockInteractions ==
    {[type |-> "BlockInteraction", action |-> a, origin |-> RayOrigin,
      direction |-> <<0, -1, 0>>] : a \in {"Break", "Place"}}
    \cup {[type |-> "BlockInteraction", action |-> "Break", origin |-> RayOrigin,
           direction |-> <<0, 1, 0>>]}

DropItemOf(slot, count) ==
    [type |-> "DropItem", slot |-> slot, count |-> count, direction |-> <<0, 0, -1000>>]

DropItems ==
    {DropItemOf(sc[1], sc[2]) : sc \in {<<0, 1>>, <<0, 64>>, <<0, 0>>, <<7, 1>>, <<36, 1>>}}

\* What the peers of a starting server send.
ClientMessages(seq) ==
    Connects \cup {[type |-> "Disconnect"]} \cup InputCommands(seq)
    \cup {DropItemOf(0, 1), DropItemOf(36, 1)} \cup {[type |-> "ToggleGameMode"]}

\* What the peers of a server with a game going on send.
GameMessages(seq) ==
    {[type |-> "Connect", auth_code |-> AuthCode, player_name |-> "Eve"]}
    \cup BlockInteractions \cup DropItems \cup {[type |-> "ToggleGameMode"]}

\* The frame times of the server (Time::delta_secs), in milliseconds.
FrameTimes == {250}

(***************************************************************************)
(* tcp_transport.rs: the acceptor thread and the reader threads.           *)
(***************************************************************************)
\* The acceptor accepts a connection: a fresh id, its writer stored, its reader spawned.
Accept ==
    /\ next_id < MaxConns
    /\ next_id' = next_id + 1
    /\ clients' = clients \cup {next_id}
    /\ readers' = Insert(readers, next_id, "reading")
    /\ held' = Insert(held, next_id, {})
    /\ UNCHANGED <<session, disk, incoming, closed, stage, messages, panicked,
                   handled, calls, nread, ticks, rejected, resent, client, probe, full>>

\* The peer closes the connection, or the network drops it.
PeerClose(c) ==
    /\ c \in DOMAIN readers
    /\ c \notin closed
    /\ closed' = closed \cup {c}
    /\ UNCHANGED <<session, disk, incoming, clients, next_id, readers, stage, messages,
                   panicked, handled, calls, nread, ticks, rejected, held, resent, client, probe, full>>

\* read_message returns Ok(msg): the reader pushes (client_id, msg).
ReaderRead(c, msg) ==
    /\ c \in DOMAIN readers
    /\ readers[c] = "reading"
    /\ c \notin closed
    /\ nread < MaxMsgs
    /\ nread' = nread + 1
    /\ incoming' = Append(incoming, [client_id |-> c, msg |-> msg])
    /\ UNCHANGED <<session, disk, clients, next_id, readers, closed, stage, messages,
                   panicked, handled, calls, ticks, rejected, held, resent, client, probe, full>>

\* read_message returns Err: the reader pushes a Disconnect.
ReaderError(c) ==
    /\ c \in DOMAIN readers
    /\ readers[c] = "reading"
    /\ c \in closed
    /\ incoming' = Append(incoming, [client_id |-> c, msg |-> [type |-> "Disconnect"]])
    /\ readers' = [readers EXCEPT ![c] = "removing"]
    /\ UNCHANGED <<session, disk, clients, next_id, closed, stage, messages,
                   panicked, handled, calls, nread, ticks, rejected, held, resent, client, probe, full>>

\* The reader ends with the writer left in the map.
ReaderEndOnly(c) ==
    /\ c \in DOMAIN readers
    /\ readers[c] = "removing"
    /\ readers' = Remove(readers, c)
    /\ UNCHANGED <<session, disk, incoming, clients, next_id, closed, stage, messages,
                   panicked, handled, calls, nread, ticks, rejected, held, resent, client, probe, full>>

\* ... then removes the client's writer and ends.
ReaderRemove(c) ==
    /\ c \in DOMAIN readers
    /\ readers[c] = "removing"
    /\ clients' = clients \ {c}
    /\ readers' = Remove(readers, c)
    /\ UNCHANGED <<session, disk, incoming, next_id, closed, stage, messages,
                   panicked, handled, calls, nread, ticks, rejected, held, resent, client, probe, full>>

(***************************************************************************)
(* The tick thread: the five systems in the order lib.rs chains them.      *)
(***************************************************************************)
\* receive() returning a copy of the inbox and leaving the inbox as it is.
TickReceivePeek ==
    /\ stage = "receive"
    /\ ~panicked
    /\ ticks < MaxTicks
    /\ ticks' = ticks + 1
    /\ session' = [session EXCEPT !.tick = @ + 1]
    /\ messages' = incoming
    /\ stage' = IF incoming = <<>> THEN "stream" ELSE "intake"
    /\ handled' = NoHandled
    /\ calls' = <<>>
    /\ UNCHANGED <<disk, incoming, clients, next_id, readers, closed, panicked, nread,
                   rejected, held, resent, client, probe, full>>

\* server_process_messages up to its loop: the tick counted, the inbox taken.
TickReceive ==
    /\ stage = "receive"
    /\ ~panicked
    /\ ticks < MaxTicks
    /\ ticks' = ticks + 1
    /\ session' = [session EXCEPT !.tick = @ + 1]
    /\ messages' = incoming
    /\ incoming' = <<>>
    /\ stage' = IF incoming = <<>> THEN "stream" ELSE "intake"
    /\ handled' = NoHandled
    /\ calls' = <<>>
    /\ UNCHANGED <<disk, clients, next_id, readers, closed, panicked, nread, rejected,
                   held, resent, client, probe, full>>

\* One iteration of the loop of server_process_messages.
ProcessMessage ==
    /\ stage = "intake"
    /\ ~panicked
    /\ messages # <<>>
    /\ Commit(HandleMessage(View, messages[1].client_id, messages[1].msg))
    /\ handled' = messages[1]
    /\ messages' = Tail(messages)
    /\ stage' = IF Tail(messages) = <<>> THEN "stream" ELSE "intake"
    /\ UNCHANGED <<incoming, next_id, readers, closed, nread, ticks, client, probe, full>>

StreamChunks ==
    /\ stage = "stream"
    /\ ~panicked
    /\ \E pick \in StreamPicks(session) : Commit(server_stream_chunks(View, pick))
    /\ stage' = "physics"
    /\ handled' = NoHandled
    /\ UNCHANGED <<incoming, next_id, readers, closed, messages, nread, ticks, client, probe, full>>

DroppedItemPhysics ==
    /\ stage = "physics"
    /\ ~panicked
    /\ \E dt \in FrameTimes : Commit(server_dropped_item_physics(View, dt))
    /\ stage' = "pickup"
    /\ handled' = NoHandled
    /\ UNCHANGED <<incoming, next_id, readers, closed, messages, nread, ticks, client, probe, full>>

PickupItems ==
    /\ stage = "pickup"
    /\ ~panicked
    /\ \E collected \in Collected(session) : Commit(server_pickup_items(View, collected))
    /\ stage' = "autosave"
    /\ handled' = NoHandled
    /\ UNCHANGED <<incoming, next_id, readers, closed, messages, nread, ticks, client, probe, full>>

AutoSave ==
    /\ stage = "autosave"
    /\ ~panicked
    /\ Commit(server_auto_save(View))
    /\ stage' = "receive"
    /\ handled' = NoHandled
    /\ UNCHANGED <<incoming, next_id, readers, closed, messages, nread, ticks, client, probe, full>>

(***************************************************************************)
(* The server with its socket transport, from start-up.                    *)
(***************************************************************************)
ServerInit(ws) ==
    /\ session = ws
    /\ disk = EmptyDisk
    /\ incoming = <<>>
    /\ clients = {}
    /\ next_id = 0
    /\ readers = [c \in {} |-> "reading"]
    /\ closed = {}
    /\ stage = "receive"
    /\ messages = <<>>
    /\ panicked = FALSE
    /\ handled = NoHandled
    /\ calls = <<>>
    /\ nread = 0
    /\ ticks = 0
    /\ rejected = {}
    /\ held = [c \in {} |-> {}]
    /\ resent = {}
    /\ full = {}

Init ==
    /\ ServerInit(WorldSession_new(AuthCode))
    /\ client = Unused
    /\ probe = Unused

Next ==
    \/ Accept
    \/ \E c \in 0..(MaxConns - 1) : PeerClose(c)
    \/ \E c \in 0..(MaxConns - 1) : \E msg \in ClientMessages(nread) : ReaderRead(c, msg)
    \/ \E c \in 0..(MaxConns - 1) : ReaderError(c)
    \/ \E c \in 0..(MaxConns - 1) : ReaderRemove(c)
    \/ TickReceive
    \/ ProcessMessage
    \/ StreamChunks
    \/ DroppedItemPhysics
    \/ PickupItems
    \/ AutoSave

Spec == Init /\ [][Next]_vars

(***************************************************************************)
(* The server with a game going on: client 0 connected as Bob in the first *)
(* tick and switched to Survival, and the tick ran to its end.             *)
(***************************************************************************)
\* The server view after the two messages of client 0.
Joined ==
    LET fresh == [ws |-> [WorldSession_new(AuthCode) EXCEPT !.tick = 1],
                  disk |-> EmptyDisk, writers |-> {0}, closed |-> {},
                  calls |-> <<>>, panicked |-> FALSE]
        connected == HandleMessage(fresh, 0, [type |-> "Connect", auth_code |-> AuthCode,
                                              player_name |-> "Bob"])
    IN  HandleMessage(connected, 0, [type |-> "ToggleGameMode"])

GameInit ==
    /\ session = [Joined.ws EXCEPT !.ticks_since_save = 1]
    /\ disk = EmptyDisk
    /\ incoming = <<>>
    /\ clients = {0}
    /\ next_id = 1
    /\ readers = [c \in {0} |-> "reading"]
    /\ closed = {}
    /\ stage = "receive"
    /\ messages = <<>>
    /\ panicked = FALSE
    /\ handled = NoHandled
    /\ calls = <<>>
    /\ nread = 0
    /\ ticks = 0
    /\ rejected = {}
    /\ held = HeldAfter([c \in {0} |-> {}], Joined.calls)
    /\ resent = {}
    /\ full = {}
    /\ client = Unused
    /\ probe = Unused

NextGame ==
    \/ Accept
    \/ \E c \in 0..(MaxConns - 1) : PeerClose(c)
    \/ \E c \in 0..(MaxConns - 1) : \E msg \in GameMessages(nread) : ReaderRead(c, msg)
    \/ \E c \in 0..(MaxConns - 1) : ReaderError(c)
    \/ \E c \in 0..(MaxConns - 1) : ReaderRemove(c)
    \/ TickReceive
    \/ ProcessMessage
    \/ StreamChunks
    \/ DroppedItemPhysics
    \/ PickupItems
    \/ AutoSave

SpecGame == GameInit /\ [][NextGame]_vars

(***************************************************************************)
(* The server late in a game: Bob, in Survival, stands on the ground of    *)
(* the spawn column with every slot of his inventory a full stack of       *)
(* Stone; a Stone item lies on the ground one block east of him, old       *)
(* enough to be picked up.                                                 *)
(***************************************************************************)
FullOfStone ==
    [slots |-> [i \in 0..(INVENTORY_SLOTS - 1) |-> Some(ItemStack_new("Stone", MAX_STACK))],
     active_slot |-> 0]

LyingItem(count) ==
    [stack |-> ItemStack_new("Stone", count), position |-> <<65500, 18000 + ItemRest, 64500>>,
     velocity |-> <<0, 0, 0>>, grounded |-> TRUE, age |-> PickupDelay]

PickupInit ==
    /\ \E count \in {1, 5} :
          session = [Joined.ws EXCEPT !.tick = 100,
                                      !.ticks_since_save = 100,
                                      !.players[0].position = <<64500, 18000, 64500>>,
                                      !.players[0].grounded = TRUE,
                                      !.inventories[0] = FullOfStone,
                                      !.dropped_items = Insert(@, 1, LyingItem(count)),
                                      !.next_entity_id = 2]
    /\ disk = EmptyDisk
    /\ incoming = <<>>
    /\ clients = {0}
    /\ next_id = 1
    /\ readers = [c \in {0} |-> "reading"]
    /\ closed = {}
    /\ stage = "receive"
    /\ messages = <<>>
    /\ panicked = FALSE
    /\ handled = NoHandled
    /\ calls = <<>>
    /\ nread = 0
    /\ ticks = 0
    /\ rejected = {}
    /\ held = HeldAfter([c \in {0} |-> {}], Joined.calls)
    /\ resent = {}
    /\ full = {}
    /\ client = Unused
    /\ probe = Unused

\* What Bob's client sends to make room: a block placed, a stack dropped.
PickupMessages ==
    {[type |-> "BlockInteraction", action |-> "Place", origin |-> RayOrigin,
      direction |-> <<0, -1, 0>>],
     DropItemOf(0, 64)}

NextPickup ==
    \/ Accept
    \/ \E c \in 0..(MaxConns - 1) : PeerClose(c)
    \/ \E c \in 0..(MaxConns - 1) : \E msg \in PickupMessages : ReaderRead(c, msg)
    \/ \E c \in 0..(MaxConns - 1) : ReaderError(c)
    \/ \E c \in 0..(MaxConns - 1) : ReaderRemove(c)
    \/ TickReceive
    \/ ProcessMessage
    \/ StreamChunks
    \/ DroppedItemPhysics
    \/ PickupItems
    \/ AutoSave

SpecPickup == PickupInit /\ [][NextPickup]_vars

(***************************************************************************)
(* The game going on with peers that stop reading their socket: the kernel *)
(* send buffer of such a connection fills, and write_all on the blocking   *)
(* stream (no write timeout is set anywhere) waits for the peer.           *)
(***************************************************************************)
\* The peer stops reading: the send buffer of its connection is full.
PeerStall(c) ==
    /\ c \in DOMAIN readers
    /\ c \notin closed
    /\ c \notin full
    /\ full' = full \cup {c}
    /\ UNCHANGED <<session, disk, incoming, clients, next_id, readers, closed, stage,
                   messages, panicked, handled, calls, nread, ticks, rejected, held, resent,
                   client, probe>>

\* The peer reads again: the send buffer has room.
PeerDrain(c) ==
    /\ c \in full
    /\ full' = full \ {c}
    /\ UNCHANGED <<session, disk, incoming, clients, next_id, readers, closed, stage,
                   messages, panicked, handled, calls, nread, ticks, rejected, held, resent,
                   client, probe>>

\* What the clients send here: a second player joins, a game mode is switched.
StallMessages ==
    {[type |-> "Connect", auth_code |-> AuthCode, player_name |-> "Eve"],
     [type |-> "ToggleGameMode"]}

NextStall ==
    \/ Accept
    \/ \E c \in 0..(MaxConns - 1) : PeerClose(c)
    \/ \E c \in 0..(MaxConns - 1) : PeerStall(c)
    \/ \E c \in 0..(MaxConns - 1) : PeerDrain(c)
    \/ \E c \in 0..(MaxConns - 1) : \E msg \in StallMessages : ReaderRead(c, msg)
    \/ \E c \in 0..(MaxConns - 1) : ReaderError(c)
    \/ \E c \in 0..(MaxConns - 1) : ReaderRemove(c)
    \/ TickReceive
    \/ ProcessMessage
    \/ StreamChunks
    \/ DroppedItemPhysics
    \/ PickupItems
    \/ AutoSave

SpecStall == GameInit /\ [][NextStall]_vars

(***************************************************************************)
(* The game going on with Bob breaking the block under the corner of his   *)
(* chunk, which dirties the chunk and its two neighbours across the        *)
(* borders, and walking out of sight of them, and a second player joining. *)
(***************************************************************************)
StreamMessages(seq) ==
    {[type |-> "BlockInteraction", action |-> "Break", origin |-> RayOrigin,
      direction |-> <<0, -1, 0>>],
     [type |-> "InputCommand", sequence |-> seq, dt |-> 2000, yaw |-> 90, pitch |-> 0,
      keys |-> {"forward"}],
     [type |-> "Connect", auth_code |-> AuthCode, player_name |-> "Eve"]}

NextStream ==
    \/ Accept
    \/ \E c \in 0..(MaxConns - 1) : PeerClose(c)
    \/ \E c \in 0..(MaxConns - 1) : \E msg \in StreamMessages(nread) : ReaderRead(c, msg)
    \/ \E c \in 0..(MaxConns - 1) : ReaderError(c)
    \/ \E c \in 0..(MaxConns - 1) : ReaderRemove(c)
    \/ TickReceive
    \/ ProcessMessage
    \/ StreamChunks
    \/ DroppedItemPhysics
    \/ PickupItems
    \/ AutoSave

SpecStream == GameInit /\ [][NextStream]_vars

(***************************************************************************)
(* The game going on two autosave stages before the save is due: Bob       *)
(* breaks and places blocks, which dirties chunks.                         *)
(***************************************************************************)
\* The server with client 0 connected as Bob and the session ws, at the start
\* of a tick.
GameStart(ws) ==
    /\ session = ws
    /\ disk = EmptyDisk
    /\ incoming = <<>>
    /\ clients = {0}
    /\ next_id = 1
    /\ readers = [c \in {0} |-> "reading"]
    /\ closed = {}
    /\ stage = "receive"
    /\ messages = <<>>
    /\ panicked = FALSE
    /\ handled = NoHandled
    /\ calls = <<>>
    /\ nread = 0
    /\ ticks = 0
    /\ rejected = {}
    /\ held = HeldAfter([c \in {0} |-> {}], Joined.calls)
    /\ resent = {}
    /\ full = {}
    /\ client = Unused
    /\ probe = Unused

SaveInit == GameStart([Joined.ws EXCEPT !.ticks_since_save = AUTO_SAVE_INTERVAL - 2])

NextSave ==
    \/ Accept
    \/ \E c \in 0..(MaxConns - 1) : PeerClose(c)
    \/ \E c \in 0..(MaxConns - 1) : \E msg \in BlockInteractions : ReaderRead(c, msg)
    \/ \E c \in 0..(MaxConns - 1) : ReaderError(c)
    \/ \E c \in 0..(MaxConns - 1) : ReaderRemove(c)
    \/ TickReceive
    \/ ProcessMessage
    \/ StreamChunks
    \/ DroppedItemPhysics
    \/ PickupItems
    \/ AutoSave

SpecSave == SaveInit /\ [][NextSave]_vars

(***************************************************************************)
(* The same late game with Bob breaking the block the lying item rests on. *)
(***************************************************************************)
\* A Break looking down from above the lying item, and the switch of the game
\* mode.
SupportMessages ==
    {[type |-> "BlockInteraction", action |-> "Break", origin |-> <<65500, 19500, 64500>>,
      direction |-> <<0, -1, 0>>],
     [type |-> "ToggleGameMode"]}

NextSupport ==
    \/ Accept
    \/ \E c \in 0..(MaxConns - 1) : PeerClose(c)
    \/ \E c \in 0..(MaxConns - 1) : \E msg \in SupportMessages : ReaderRead(c, msg)
    \/ \E c \in 0..(MaxConns - 1) : ReaderError(c)
    \/ \E c \in 0..(MaxConns - 1) : ReaderRemove(c)
    \/ TickReceive
    \/ ProcessMessage
    \/ StreamChunks
    \/ DroppedItemPhysics
    \/ PickupItems
    \/ AutoSave

SpecSupport == PickupInit /\ [][NextSupport]_vars

(***************************************************************************)
(* The game going on with two items left in Bob's active slot: Bob places  *)
(* blocks on the ground under him, against the underside of the world and  *)
(* from inside the ground, in Survival and in Creative.                    *)
(***************************************************************************)
PlaceInit ==
    GameStart([Joined.ws EXCEPT !.ticks_since_save = 1,
                                !.inventories[0].slots[0].count = 2])

\* A Place looking down at the ground, a Place looking up from under the
\* lowest layer of the world, a Place looking down from inside the ground, and
\* the switch of the game mode.
PlaceMessages ==
    {[type |-> "BlockInteraction", action |-> "Place", origin |-> RayOrigin,
      direction |-> <<0, -1, 0>>],
     [type |-> "BlockInteraction", action |-> "Place", origin |-> <<64500, -500, 64500>>,
      direction |-> <<0, 1, 0>>],
     [type |-> "BlockInteraction", action |-> "Place", origin |-> <<64500, 15500, 64500>>,
      direction |-> <<0, -1, 0>>],
     [type |-> "ToggleGameMode"]}

NextPlace ==
    \/ Accept
    \/ \E c \in 0..(MaxConns - 1) : PeerClose(c)
    \/ \E c \in 0..(MaxConns - 1) : \E msg \in PlaceMessages : ReaderRead(c, msg)
    \/ \E c \in 0..(MaxConns - 1) : ReaderError(c)
    \/ \E c \in 0..(MaxConns - 1) : ReaderRemove(c)
    \/ TickReceive
    \/ ProcessMessage
    \/ StreamChunks
    \/ DroppedItemPhysics
    \/ PickupItems
    \/ AutoSave

SpecPlace == PlaceInit /\ [][NextPlace]_vars

(***************************************************************************)
(* The same late game with a second player joining and stacks dropped in   *)
(* part and whole: every operation that builds or changes an ItemStack.    *)
(***************************************************************************)
ItemMessages ==
    PickupMessages
    \cup {[type |-> "Connect", auth_code |-> AuthCode, player_name |-> "Eve"],
          DropItemOf(0, 3)}

NextItems ==
    \/ Accept
    \/ \E c \in 0..(MaxConns - 1) : PeerClose(c)
    \/ \E c \in 0..(MaxConns - 1) : \E msg \in ItemMessages : ReaderRead(c, msg)
    \/ \E c \in 0..(MaxConns - 1) : ReaderError(c)
    \/ \E c \in 0..(MaxConns - 1) : ReaderRemove(c)
    \/ TickReceive
    \/ ProcessMessage
    \/ StreamChunks
    \/ DroppedItemPhysics
    \/ PickupItems
    \/ AutoSave

SpecItems == PickupInit /\ [][NextItems]_vars

(***************************************************************************)
(* network.rs: the client's handler of PlayerStateUpdate.  The local       *)
(* player is [position, translation, velocity_y, grounded], translation    *)
(* being the camera Transform.                                             *)
(***************************************************************************)
\* RECONCILE_THRESHOLD, 0.1 block.
RECONCILE_THRESHOLD == 100

\* The arm with the threshold test left out: the position always taken.
SnapAlways(player, msg) ==
    [position |-> msg.position,
     translation |-> VAdd(msg.position, <<0, EYE_HEIGHT, 0>>),
     velocity_y |-> msg.velocity_y, grounded |-> msg.grounded]

\* The PlayerStateUpdate arm of client_receive_messages.
Reconcile(player, msg) ==
    LET snapped == IF ~WithinDistance(player.position, msg.position, RECONCILE_THRESHOLD)
                   THEN [player EXCEPT !.position = msg.position,
                                       !.translation = VAdd(msg.position,
                                                            <<0, EYE_HEIGHT, 0>>)]
                   ELSE player
    IN  [snapped EXCEPT !.velocity_y = msg.velocity_y, !.grounded = msg.grounded]

\* The idle server next to which the pure operations are exercised.
serverVars == <<session, disk, incoming, clients, next_id, readers, closed,
                stage, messages, panicked, handled, calls, nread, ticks, rejected, held, resent,
                full>>

\* The positions a PlayerStateUpdate carries: on and around the sphere of radius
\* RECONCILE_THRESHOLD about the spawn point, and farther.
ServerPositions ==
    {VAdd(PlayerState_default.position, <<dx, dy, dz>>) :
        dx \in {0, 60, 100, 101, 2000}, dy \in {-80, 0, 80, 81}, dz \in {0, 71}}

StateUpdates ==
    {[type |-> "PlayerStateUpdate", last_processed_input |-> 0, position |-> pos,
      velocity_y |-> vy, grounded |-> vy = 0] : pos \in ServerPositions, vy \in {0, -1600}}

\* client_receive_messages takes a PlayerStateUpdate.
ClientReceive(msg) ==
    /\ client' = Reconcile(client, msg)
    /\ probe' = [op |-> "reconcile", before |-> client, msg |-> msg]
    /\ UNCHANGED serverVars

ClientInit ==
    /\ ServerInit(WorldSession_new(AuthCode))
    /\ client = [position |-> PlayerState_default.position,
                 translation |-> VAdd(PlayerState_default.position, <<0, EYE_HEIGHT, 0>>),
                 velocity_y |-> 0, grounded |-> FALSE]
    /\ probe = Unused

NextClient == \E msg \in StateUpdates : ClientReceive(msg)

SpecClient == ClientInit /\ [][NextClient]_vars

(***************************************************************************)
(* chunk.rs exercised on its own: probe.chunk_map is a ChunkMap, loaded    *)
(* chunk by chunk and written cell by cell.                                *)
(***************************************************************************)
MaxWrites == 2

\* The chunks around the origin of the world.
OriginChunks == {<<-1, -1>>, <<-1, 0>>, <<0, 0>>}

\* World coordinates on both sides of the chunk borders and of the height range.
WorldCoords ==
    {<<wx, wy, wz>> : wx \in {-16, -1, 0, 16}, wy \in {-1, 0, 63, 64}, wz \in {-1, 0}}

\* chunk_map.chunks.insert(pos, generated chunk)
LoadChunk(pos) ==
    /\ pos \notin DOMAIN probe.chunk_map
    /\ probe' = [probe EXCEPT !.chunk_map = Insert(@, pos, GeneratedChunk(pos)),
                              !.op = "load"]
    /\ UNCHANGED <<serverVars, client>>

\* chunk_map.set_block(wx, wy, wz, b)
SetBlock(w, b) ==
    /\ probe.writes < MaxWrites
    /\ probe' = [chunk_map |-> ChunkMap_set_block(probe.chunk_map, w[1], w[2], w[3], b),
                 op |-> "set", w |-> w, b |-> b, before |-> probe.chunk_map,
                 writes |-> probe.writes + 1]
    /\ UNCHANGED <<serverVars, client>>

ChunkMapInit ==
    /\ ServerInit(WorldSession_new(AuthCode))
    /\ client = Unused
    /\ probe = [chunk_map |-> [pos \in {} |-> Chunk_new], op |-> "new", w |-> <<0, 0, 0>>,
                b |-> "Air", before |-> [pos \in {} |-> Chunk_new], writes |-> 0]

NextChunkMap ==
    \/ \E pos \in OriginChunks : LoadChunk(pos)
    \/ \E w \in WorldCoords : \E b \in {"Air", "Stone"} : SetBlock(w, b)

SpecChunkMap == ChunkMapInit /\ [][NextChunkMap]_vars

(***************************************************************************)
(* physics.rs exercised on its own: a player moved about the spawn chunk   *)
(* by move_with_collision.  probe.pos is the player's position.            *)
(***************************************************************************)
MaxMoves == 2

\* The generated spawn chunk, its terrain 17 high west of x = 72 and 20 high east
\* of it, with one Stone block placed in the air at (66, 21, 68).
PhysicsWorld ==
    ChunkMap_set_block([pos \in {<<4, 4>>} |-> GeneratedChunk(pos)], 66, 21, 68, "Stone")

\* Positions on the ground and in the air just above it, in front of the step of
\* the terrain and under the placed block.
StartPositions ==
    {<<70500, 18000, 68500>>, <<70500, 18200, 68500>>,
     <<66500, 18000, 68500>>, <<66500, 18500, 68500>>}

\* Movements of less than a block and of more than a block on each axis.
Deltas ==
    {<<dx, dy, dz>> : dx \in {-400, 0, 900, 3300}, dy \in {-1300, -200, 0, 900},
                      dz \in {0, 900}}

\* pos = move_with_collision(pos, delta, chunk_map)
Move(delta) ==
    /\ probe.moves < MaxMoves
    /\ LET moved == move_with_collision(probe.pos, delta, PhysicsWorld)
       IN  probe' = [op |-> "move", from |-> probe.pos, delta |-> delta, pos |-> moved.pos,
                     hit_floor |-> moved.hit_floor, hit_ceiling |-> moved.hit_ceiling,
                     moves |-> probe.moves + 1]
    /\ UNCHANGED <<serverVars, client>>

PhysicsInit ==
    /\ ServerInit(WorldSession_new(AuthCode))
    /\ client = Unused
    /\ \E pos \in StartPositions :
          probe = [op |-> "start", from |-> pos, delta |-> <<0, 0, 0>>, pos |-> pos,
                   hit_floor |-> FALSE, hit_ceiling |-> FALSE, moves |-> 0]

NextPhysics == \E delta \in Deltas : Move(delta)

SpecPhysics == PhysicsInit /\ [][NextPhysics]_vars

(***************************************************************************)
(* raycast.rs exercised on its own: rays cast from the middle of an empty  *)
(* chunk in which up to MaxSolid cells have been made Stone.               *)
(***************************************************************************)
MaxSolid == 2

\* The chunk of Chunk::new at <<4, 4>>: all Air, x and z in 64..79.
RayWorld == [pos \in {<<4, 4>>} |-> Chunk_new]

\* Eye positions in the cell (72, 20, 72): its centre, off its centre on one
\* axis, and near one of its corners.
RayOrigins == {<<72500, 20500, 72500>>, <<72250, 20500, 72500>>, <<72900, 20100, 72500>>}

\* Directions along the axes, diagonal in a plane (through cell corners from the
\* centre), oblique, diagonal in space, and the zero vector.
RayDirections ==
    {<<1, 0, 0>>, <<-1, 0, 0>>, <<0, 1, 0>>, <<0, -1, 0>>, <<0, 0, -1>>,
     <<1, -1, 0>>, <<2, -1, 0>>, <<-1, -1, -1>>, <<0, 0, 0>>}

\* The cells that can be made solid: the origin cell, cells next to it and on the
\* rays, and cells on both sides of the reach.
RayCells ==
    {<<72, 20, 72>>, <<74, 20, 72>>, <<73, 20, 72>>, <<65, 20, 72>>, <<64, 20, 72>>,
     <<72, 28, 72>>, <<72, 29, 72>>, <<72, 17, 72>>, <<72, 20, 70>>,
     <<73, 19, 72>>, <<72, 19, 72>>, <<74, 19, 72>>, <<71, 19, 71>>}

\* chunk_map.set_block(cell, Stone)
PlaceSolid(cell) ==
    /\ probe.solid < MaxSolid
    /\ ChunkMap_get_block(probe.chunk_map, cell[1], cell[2], cell[3]) = "Air"
    /\ probe' = [probe EXCEPT
                    !.chunk_map = ChunkMap_set_block(@, cell[1], cell[2], cell[3], "Stone"),
                    !.op = "place", !.solid = @ + 1]
    /\ UNCHANGED <<serverVars, client>>

\* hit = dda_raycast(origin, direction, chunk_map)
Cast(origin, direction) ==
    /\ probe' = [probe EXCEPT !.op = "cast", !.origin = origin, !.direction = direction,
                              !.hit = dda_raycast(origin, direction, probe.chunk_map)]
    /\ UNCHANGED <<serverVars, client>>

RaycastInit ==
    /\ ServerInit(WorldSession_new(AuthCode))
    /\ client = Unused
    /\ probe = [op |-> "new", chunk_map |-> RayWorld, solid |-> 0,
                origin |-> <<0, 0, 0>>, direction |-> <<0, 0, 0>>, hit |-> NoHit]

NextRaycast ==
    \/ \E cell \in RayCells : PlaceSolid(cell)
    \/ \E origin \in RayOrigins : \E direction \in RayDirections : Cast(origin, direction)

SpecRaycast == RaycastInit /\ [][NextRaycast]_vars

(***************************************************************************)
(* camera.rs of the client: the prediction of camera_movement, run frame   *)
(* by frame next to the server's handling of the InputCommand it sends.    *)
(* probe.client is the client's Player, probe.server the server's          *)
(* PlayerState, probe.down whether Space was down in the frame before.     *)
(***************************************************************************)
MaxFrames == 3

\* CameraSettings::default().speed, in blocks per second.
CameraSpeed == 12

\* needs_server_update: a key is pressed or the player is airborne.
needs_server_update(p, keys) == keys # {} \/ ~p.grounded

\* The InputCommand camera_movement sends for a frame.
InputOf(keys, dt, yaw, pitch) ==
    [type |-> "InputCommand", sequence |-> 0, dt |-> dt, yaw |-> yaw, pitch |-> pitch,
     keys |-> keys]

\* The client's player after one frame of camera_movement (lines 137-287), the
\* keys pressed and whether Space went down in this frame (just_pressed).
camera_movement(p, keys, just_pressed, dt, yaw, pitch, cm) ==
    LET fwd == ForwardOf(yaw, pitch)
        rgt == RightOf(yaw)
        turned == [p EXCEPT !.yaw = yaw, !.pitch = pitch]
        creative == turned.game_mode = "Creative"
        needs == needs_server_update(p, keys)
        \* Creative
        velocity == Normalize(KeySum(keys, fwd, rgt, <<0, Unit, 0>>))
        \* Survival
        forward_xz == Normalize(<<fwd[1], 0, fwd[3]>>)
        right_xz == Normalize(<<rgt[1], 0, rgt[3]>>)
        horizontal == Normalize(KeySum(keys \ {"jump", "sneak"}, forward_xz, right_xz,
                                       <<0, 0, 0>>))
        on_ground == is_on_ground(turned.position, cm)
        jumps == just_pressed /\ on_ground
        vy0 == IF jumps THEN JUMP_VELOCITY ELSE turned.velocity_y
        vy == Max(vy0 - TruncDiv(GRAVITY * dt, 1000), -TERMINAL_VELOCITY)
        delta == IF creative
                 THEN VScale(velocity, CameraSpeed * dt)
                 ELSE <<TruncDiv(horizontal[1] * CameraSpeed * dt, Unit),
                        TruncDiv(vy * dt, 1000),
                        TruncDiv(horizontal[3] * CameraSpeed * dt, Unit)>>
        readied == IF creative THEN turned
                   ELSE [turned EXCEPT !.grounded = on_ground /\ ~jumps,
                                       !.velocity_y = vy]
    IN  Only({IF ~needs /\ r.grounded THEN r
              ELSE IF r.game_mode = "Creative"
              THEN [r EXCEPT !.position = moved.pos]
              ELSE [r EXCEPT
                       !.position = moved.pos,
                       !.velocity_y = IF moved.hit_floor \/ moved.hit_ceiling THEN 0 ELSE @,
                       !.grounded = IF moved.hit_floor THEN TRUE ELSE @] :
              r \in {readied}, moved \in {move_with_collision(p.position, delta, cm)}})

\* The keys of a frame: none, one, Space alone and Space with a direction.
FrameKeys == {{}, {"forward"}, {"jump"}, {"forward", "jump"}, {"sneak"}}

\* The frame times, in milliseconds.
FrameDts == {100, 250}

\* A frame of the client: camera_movement predicts, and the server handles the
\* InputCommand of the frame if the client sent one.  probe.plain says that
\* every Survival frame so far sent its InputCommand and had Space pressed only
\* when it went down in that frame.
Frame(keys, dt, yaw) ==
    /\ probe.frames < MaxFrames
    /\ LET just_pressed == "jump" \in keys /\ ~probe.down
           sends == needs_server_update(probe.client, keys)
       IN  probe' = [op |-> "frame",
                     client |-> camera_movement(probe.client, keys, just_pressed, dt,
                                                yaw, 0, PhysicsWorld),
                     server |-> IF sends
                                THEN MovePlayer(probe.server, InputOf(keys, dt, yaw, 0),
                                                PhysicsWorld)
                                ELSE probe.server,
                     keys |-> keys,
                     sent |-> sends,
                     held |-> "jump" \in keys /\ probe.down,
                     down |-> "jump" \in keys,
                     plain |-> /\ probe.plain
                               /\ \/ probe.client.game_mode = "Creative"
                                  \/ sends /\ ("jump" \in keys => ~probe.down),
                     frames |-> probe.frames + 1]
    /\ UNCHANGED <<serverVars, client>>

\* The player on the ground of the spawn chunk or in the air just above it, in
\* either game mode, the same on the client and on the server.
PredictionInit ==
    /\ ServerInit(WorldSession_new(AuthCode))
    /\ client = Unused
    /\ \E mode \in {"Creative", "Survival"} :
       \E pos \in {<<70500, 18000, 68500>>, <<70500, 18200, 68500>>} :
          LET p == [PlayerState_default EXCEPT
                       !.position = pos, !.game_mode = mode,
                       !.grounded = is_on_ground(pos, PhysicsWorld)]
          IN  probe = [op |-> "start", client |-> p, server |-> p, keys |-> {},
                       sent |-> FALSE, held |-> FALSE, down |-> FALSE, plain |-> TRUE,
                       frames |-> 0]

NextPrediction == \E keys \in FrameKeys : \E dt \in FrameDts : \E yaw \in {0, 90} :
                      Frame(keys, dt, yaw)

SpecPrediction == PredictionInit /\ [][NextPrediction]_vars

(***************************************************************************)
(* world_session.rs exercised on its own: the chunks of a session edited,  *)
(* evicted by the end of the streaming stage, saved and loaded again, and  *)
(* chunk files removed or corrupted behind the server's back.  probe.ws is *)
(* the session, probe.disk the world directory.                            *)
(***************************************************************************)
MaxLoadSteps == 5

LoadChunks == {<<0, 0>>, <<-1, 0>>}

\* Cells at the border between the two chunks and inside each.
LoadCells == {<<0, 1, 0>>, <<5, 3, 5>>, <<-3, 2, 4>>}

ProbeView ==
    [ws |-> probe.ws, disk |-> probe.disk, writers |-> {}, closed |-> {},
     calls |-> <<>>, panicked |-> FALSE]

\* probe after a step that leaves the view sv.
Stepped(op, pos, sv) ==
    [probe EXCEPT !.op = op, !.pos = pos, !.ws = sv.ws, !.disk = sv.disk,
                  !.panicked = sv.panicked,
                  !.before = probe.ws.chunk_map, !.disk_before = probe.disk,
                  !.steps = @ + 1]

\* The positions of the dirty chunks among the positions ps.
DirtyIn(ps) == {pos \in ps \cap DOMAIN probe.ws.chunk_map : probe.ws.chunk_map[pos].dirty}

\* session.ensure_chunk_loaded(pos)
EnsureLoaded(pos) ==
    /\ probe.steps < MaxLoadSteps
    /\ probe' = Stepped("ensure", pos, ensure_chunk_loaded(ProbeView, pos))
    /\ UNCHANGED <<serverVars, client>>

\* session.chunk_map.set_block(w, b)
EditBlock(w, b) ==
    /\ probe.steps < MaxLoadSteps
    /\ probe' = [Stepped("edit", <<ChunkCoord(w[1]), ChunkCoord(w[3])>>,
                         [ProbeView EXCEPT !.ws.chunk_map =
                              ChunkMap_set_block(@, w[1], w[2], w[3], b)])
                    EXCEPT !.edited = @ \cup ({<<ChunkCoord(w[1]), ChunkCoord(w[3])>>}
                                          \cap DOMAIN probe.ws.chunk_map)]
    /\ UNCHANGED <<serverVars, client>>

\* The end of a streaming stage with the chunks `keep` in the players' sets:
\* probe.evicted keeps the block array each chunk had when it was evicted.
Evict(keep) ==
    /\ probe.steps < MaxLoadSteps
    /\ LET cm == probe.ws.chunk_map
           gone == (DOMAIN cm) \ keep
       IN  probe' = [Stepped("evict", <<0, 0>>,
                             EvictChunks([ProbeView EXCEPT
                                 !.ws.loaded_chunks_per_player = [id \in {0} |-> keep]]))
                        EXCEPT !.evicted = [pos \in (DOMAIN @) \cup gone |->
                                               IF pos \in gone THEN cm[pos].blocks
                                               ELSE @[pos]],
                               !.damaged = @ \ DirtyIn(gone)]
    /\ UNCHANGED <<serverVars, client>>

\* session.save_to_disk()
Save ==
    /\ probe.steps < MaxLoadSteps
    /\ probe' = [Stepped("save", <<0, 0>>, save_to_disk(ProbeView))
                    EXCEPT !.damaged = @ \ DirtyIn(LoadChunks)]
    /\ UNCHANGED <<serverVars, client>>

\* The file of a chunk is removed, or left unreadable, corrupt or of the wrong
\* size.
Damage(pos, removed) ==
    /\ probe.steps < MaxLoadSteps
    /\ pos \in DOMAIN probe.disk.chunks
    /\ probe' = [Stepped("damage", pos,
                         [ProbeView EXCEPT !.disk.chunks =
                              IF removed THEN Remove(@, pos)
                              ELSE [@ EXCEPT ![pos].valid = FALSE]])
                    EXCEPT !.damaged = @ \cup {pos}]
    /\ UNCHANGED <<serverVars, client>>

LoadInit ==
    /\ ServerInit(WorldSession_new(AuthCode))
    /\ client = Unused
    /\ probe = [op |-> "new", pos |-> <<0, 0>>, ws |-> WorldSession_new(AuthCode),
                disk |-> EmptyDisk, panicked |-> FALSE,
                before |-> WorldSession_new(AuthCode).chunk_map, disk_before |-> EmptyDisk,
                edited |-> {}, evicted |-> [pos \in {} |-> Chunk_new.blocks],
                damaged |-> {}, steps |-> 0]

NextLoad ==
    \/ \E pos \in LoadChunks : EnsureLoaded(pos)
    \/ \E w \in LoadCells : \E b \in {"Wood", "Air"} : EditBlock(w, b)
    \/ \E keep \in SUBSET LoadChunks : Evict(keep)
    \/ Save
    \/ \E pos \in LoadChunks : \E removed \in BOOLEAN : Damage(pos, removed)

SpecLoad == LoadInit /\ [][NextLoad]_vars

(***************************************************************************)
(* The same chunks with a disk that can refuse a write: fs::write of a     *)
(* chunk file returns Err for the chunks `failed`, leaving the file as it  *)
(* was or, if `torn`, cut short.  probe.damaged then holds the chunks      *)
(* whose last write failed as well.                                        *)
(***************************************************************************)
\* save_to_disk with the results of its chunk writes (lines 128-153; the
\* metadata write succeeds): every dirty chunk is marked clean, written or not.
save_to_disk_io(sv, failed, torn) ==
    LET cm == sv.ws.chunk_map
        dirty == {pos \in DOMAIN cm : cm[pos].dirty}
        written == dirty \ failed
        cut == IF torn THEN dirty \cap failed \cap DOMAIN sv.disk.chunks ELSE {}
    IN  [sv EXCEPT
            !.disk = [meta |-> [present |-> TRUE, seed |-> sv.ws.seed, tick |-> sv.ws.tick,
                                next_entity_id |-> sv.ws.next_entity_id],
                      chunks |-> [pos \in (DOMAIN sv.disk.chunks) \cup written |->
                                     IF pos \in written
                                     THEN [blocks |-> cm[pos].blocks, valid |-> TRUE]
                                     ELSE IF pos \in cut
                                     THEN [sv.disk.chunks[pos] EXCEPT !.valid = FALSE]
                                     ELSE sv.disk.chunks[pos]]],
            !.ws.chunk_map = [pos \in DOMAIN cm |-> [cm[pos] EXCEPT !.dirty = FALSE]]]

\* session.save_to_disk() on that disk.
SaveIo(failed, torn) ==
    /\ probe.steps < MaxLoadSteps
    /\ failed \subseteq DirtyIn(LoadChunks)
    /\ torn => failed # {}
    /\ probe' = [Stepped("save", <<0, 0>>, save_to_disk_io(ProbeView, failed, torn))
                    EXCEPT !.damaged = (@ \ DirtyIn(LoadChunks)) \cup failed]
    /\ UNCHANGED <<serverVars, client>>

NextDisk ==
    \/ \E pos \in LoadChunks : EnsureLoaded(pos)
    \/ \E w \in LoadCells : \E b \in {"Wood", "Air"} : EditBlock(w, b)
    \/ \E keep \in SUBSET LoadChunks : Evict(keep)
    \/ \E failed \in SUBSET LoadChunks : \E torn \in BOOLEAN : SaveIo(failed, torn)

SpecDisk == LoadInit /\ [][NextDisk]_vars

(***************************************************************************)
(* Entity ids over the life of a world: Bob breaks blocks and drops items, *)
(* the session is saved, the server process is started again on the same   *)
(* world directory and Bob connects again.  probe.created is every id a    *)
(* dropped item was created under, probe.fresh those of the last step.     *)
(***************************************************************************)
MaxIdSteps == 5

\* What Bob sends: a block broken, items dropped, and the Connect after a
\* restart.
IdMessages ==
    {[type |-> "BlockInteraction", action |-> "Break", origin |-> RayOrigin,
      direction |-> <<0, -1, 0>>],
     DropItemOf(0, 1), DropItemOf(1, 64),
     [type |-> "Connect", auth_code |-> AuthCode, player_name |-> "Bob"]}

\* probe after a step of the world that leaves the view sv.
IdStepped(op, sv) ==
    [op |-> op, ws |-> sv.ws, disk |-> sv.disk,
     next_before |-> probe.ws.next_entity_id,
     created_before |-> probe.created,
     fresh |-> (DOMAIN sv.ws.dropped_items) \ DOMAIN probe.ws.dropped_items,
     created |-> probe.created
                 \cup ((DOMAIN sv.ws.dropped_items) \ DOMAIN probe.ws.dropped_items),
     stale |-> probe.stale,
     steps |-> probe.steps + 1]

\* One message of Bob handled by server_process_messages.
Act(msg) ==
    /\ probe.steps < MaxIdSteps
    /\ probe' = IdStepped("act", HandleMessage([ProbeView EXCEPT !.writers = {0}], 0, msg))
    /\ UNCHANGED <<serverVars, client>>

\* session.save_to_disk()
SaveWorld ==
    /\ probe.steps < MaxIdSteps
    /\ probe' = IdStepped("save", save_to_disk(ProbeView))
    /\ UNCHANGED <<serverVars, client>>

\* The server process ends and is started again: load_or_create on the same
\* world directory.  probe.stale says that some restart did not follow a save
\* directly, so that ids given out after the save were forgotten.
Restart ==
    /\ probe.steps < MaxIdSteps
    /\ probe' = [IdStepped("restart",
                           [ProbeView EXCEPT !.ws = load_or_create(probe.disk, AuthCode)])
                    EXCEPT !.fresh = {},
                           !.created = probe.created,
                           !.stale = \/ probe.stale
                                     \/ ~probe.disk.meta.present
                                     \/ probe.disk.meta.next_entity_id
                                            # probe.ws.next_entity_id]
    /\ UNCHANGED <<serverVars, client>>

IdsInit ==
    /\ ServerInit(WorldSession_new(AuthCode))
    /\ client = Unused
    /\ probe = [op |-> "new", ws |-> Joined.ws, disk |-> EmptyDisk,
                next_before |-> Joined.ws.next_entity_id, created_before |-> {},
                fresh |-> {}, created |-> {}, stale |-> FALSE, steps |-> 0]

NextIds ==
    \/ \E msg \in IdMessages : Act(msg)
    \/ SaveWorld
    \/ Restart

SpecIds == IdsInit /\ [][NextIds]_vars

(***************************************************************************)
(* The client's hotbar and its optimistic block edits (client inventory/   *)
(* mod.rs and interaction/raycast.rs) beside the server: Bob, alone in the *)
(* game, selects hotbar slots and places blocks; every BlockInteraction he *)
(* sends is handled by the server at once.  probe.ws is the session, probe *)
(* .chunk_map, .inventory and .game_mode are the client's resources, and   *)
(* probe.synced says that every Place so far was made with the session's   *)
(* active slot selected.                                                   *)
(***************************************************************************)
MaxHotbarSteps == 4

\* scroll_hotbar: one MouseWheel event of the frame (0 for none), then the digit
\* keys just pressed, Digit1 to Digit9 in that order.
scroll_hotbar(inv, wheel, digits) ==
    LET scrolled == IF wheel > 0 THEN (inv.active_slot + 1) % 9
                    ELSE IF wheel < 0
                    THEN (IF inv.active_slot = 0 THEN 8 ELSE inv.active_slot - 1)
                    ELSE inv.active_slot
    IN  [inv EXCEPT !.active_slot =
            IF digits = {} THEN scrolled ELSE CHOOSE s \in digits : \A t \in digits : t <= s]

\* block_interaction with the right button just pressed: the edit applied to
\* the client's ChunkMap and Inventory first, then the message for the server.
block_interaction(cl, origin, direction) ==
    LET hit == dda_raycast(origin, direction, cl.chunk_map)
        block == active_block(cl.inventory)
        place_pos == VAdd(hit.block_pos, hit.normal)
        wrote == hit.hit /\ block.some
    IN  [chunk_map |-> IF wrote
                       THEN ChunkMap_set_block(cl.chunk_map, place_pos[1], place_pos[2],
                                               place_pos[3], block.block)
                       ELSE cl.chunk_map,
         inventory |-> IF wrote /\ cl.game_mode = "Survival"
                       THEN consume_active(cl.inventory) ELSE cl.inventory,
         wrote |-> wrote,
         place_pos |-> IF hit.hit THEN place_pos ELSE <<0, 0, 0>>,
         block |-> block.block,
         msg |-> [type |-> "BlockInteraction", action |-> "Place", origin |-> origin,
                  direction |-> direction]]

\* A frame in which Bob turns the wheel or presses digit keys.
ScrollHotbar(wheel, digits) ==
    /\ probe.steps < MaxHotbarSteps
    /\ probe' = [probe EXCEPT !.op = "scroll",
                              !.inventory = scroll_hotbar(@, wheel, digits),
                              !.steps = @ + 1]
    /\ UNCHANGED <<serverVars, client>>

\* A frame in which Bob clicks the right button, and the tick of the server
\* that handles his BlockInteraction.
PlaceOptimistic(origin, direction) ==
    /\ probe.steps < MaxHotbarSteps
    /\ LET done == block_interaction(probe, origin, direction)
           sv == HandleMessage([ProbeView EXCEPT !.writers = {0}], 0, done.msg)
       IN  probe' = [probe EXCEPT !.op = "place", !.ws = sv.ws, !.calls = sv.calls,
                                  !.chunk_map = done.chunk_map,
                                  !.inventory = done.inventory,
                                  !.wrote = done.wrote, !.place_pos = done.place_pos,
                                  !.block = done.block,
                                  !.synced = @ /\ probe.inventory.active_slot
                                                     = probe.ws.inventories[0].active_slot,
                                  !.steps = @ + 1]
    /\ UNCHANGED <<serverVars, client>>

HotbarInit ==
    /\ ServerInit(WorldSession_new(AuthCode))
    /\ client = Unused
    /\ \E mode \in {"Survival", "Creative"} :
          probe = [op |-> "new",
                   ws |-> [Joined.ws EXCEPT !.players[0].game_mode = mode],
                   disk |-> EmptyDisk, calls |-> <<>>,
                   chunk_map |-> Joined.ws.chunk_map, inventory |-> Inventory_default,
                   game_mode |-> mode, wrote |-> FALSE, place_pos |-> <<0, 0, 0>>,
                   block |-> "Air", synced |-> TRUE, steps |-> 0]

NextHotbar ==
    \/ \E wheel \in {-1, 0, 1} : \E digits \in {{}, {1}, {1, 7}} : ScrollHotbar(wheel, digits)
    \/ PlaceOptimistic(RayOrigin, <<0, -1, 0>>)

SpecHotbar == HotbarInit /\ [][NextHotbar]_vars

(***************************************************************************)
(* tcp_transport.rs, lock by lock: the threads of TcpServerTransport and   *)
(* its two mutexes, `incoming` (the inbox) and `clients` (the writers).    *)
(* The tick thread calls send, broadcast, broadcast_except, disconnect and *)
(* receive; the acceptor thread registers writers; one reader thread per   *)
(* connection pushes what it reads.  probe.pc is each thread's position,   *)
(* probe.holder the thread holding each mutex; a thread at a *_lock        *)
(* position is inside Mutex::lock, waiting for the mutex.                  *)
(***************************************************************************)
MaxReads == 2

TickThread == <<"tick", 0>>

AcceptorThread == <<"acceptor", 0>>

ReaderThread(c) == <<"reader", c>>

Nobody == <<"nobody", 0>>

Threads == {TickThread, AcceptorThread} \cup {ReaderThread(c) : c \in 0..(MaxConns - 1)}

\* The mutex a thread at position pc is waiting for in Mutex::lock.
WaitsFor(pc) ==
    IF pc \in {"call_lock", "insert_lock", "remove_lock"} THEN "clients"
    ELSE IF pc \in {"receive_lock", "push_lock", "error_lock"} THEN "incoming"
    ELSE "none"

\* The position of a thread once Mutex::lock has returned.
Locked(pc) ==
    CASE pc = "call_lock" -> "call_in"
      [] pc = "insert_lock" -> "insert_in"
      [] pc = "remove_lock" -> "remove_in"
      [] pc = "receive_lock" -> "receive_in"
      [] pc = "push_lock" -> "push_in"
      [] pc = "error_lock" -> "error_in"

\* Mutex::lock returns: the mutex was free and is now the thread's.
acquire(l, t) ==
    [l EXCEPT !.holder[WaitsFor(l.pc[t])] = t, !.pc[t] = Locked(l.pc[t])]

\* The MutexGuard is dropped.
release(l, m) == [l EXCEPT !.holder[m] = Nobody]

\* The Err arm with the inbox guard bound to a variable that lives to the end
\* of the arm: the guard is still held at `clients.lock()`.
reader_error_holding(l, c) ==
    [l EXCEPT !.incoming = Append(@, <<c, "Disconnect">>),
              !.pc[ReaderThread(c)] = "remove_lock"]

\* The reader's Err arm after `incoming.lock().unwrap().push(Disconnect)`: the
\* guard is a temporary of that statement and is dropped at its end; the
\* thread goes on to `clients.lock()`.
reader_error_pushed(l, c) ==
    [release([l EXCEPT !.incoming = Append(@, <<c, "Disconnect">>)], "incoming")
        EXCEPT !.pc[ReaderThread(c)] = "remove_lock"]

\* The tick thread enters send, broadcast, broadcast_except or disconnect.
TickCall(call) ==
    /\ probe.pc[TickThread] = "idle"
    /\ probe' = [probe EXCEPT !.op = call, !.pc[TickThread] = "call_lock"]
    /\ UNCHANGED <<serverVars, client>>

\* The body of the call under the clients guard, `failed` being the clients a
\* write to which fails (all of them for disconnect), and the drop of the guard.
TickCallDone(failed) ==
    /\ probe.pc[TickThread] = "call_in"
    /\ failed \subseteq probe.clients
    /\ probe.op = "disconnect" => Cardinality(failed) <= 1
    /\ probe.op = "send" => Cardinality(failed) <= 1
    /\ probe' = [release(probe, "clients") EXCEPT !.clients = @ \ failed,
                                                  !.pc[TickThread] = "idle"]
    /\ UNCHANGED <<serverVars, client>>

\* The tick thread enters receive.
TickReceiveCall ==
    /\ probe.pc[TickThread] = "idle"
    /\ probe' = [probe EXCEPT !.op = "receive", !.pc[TickThread] = "receive_lock"]
    /\ UNCHANGED <<serverVars, client>>

\* std::mem::take under the inbox guard, and the drop of the guard.
TickReceiveDone ==
    /\ probe.pc[TickThread] = "receive_in"
    /\ probe' = [release(probe, "incoming") EXCEPT !.incoming = <<>>,
                                                   !.pc[TickThread] = "idle"]
    /\ UNCHANGED <<serverVars, client>>

\* listener.incoming() yields a stream: the acceptor takes the next id and goes
\* to store the writer.
AcceptorAccept ==
    /\ probe.pc[AcceptorThread] = "accept"
    /\ probe.next_id < MaxConns
    /\ probe' = [probe EXCEPT !.pc[AcceptorThread] = "insert_lock"]
    /\ UNCHANGED <<serverVars, client>>

\* The writer is inserted under the clients guard, the guard dropped at the end
\* of the block, and the reader thread spawned.
AcceptorInsert ==
    /\ probe.pc[AcceptorThread] = "insert_in"
    /\ probe' = [release(probe, "clients")
                    EXCEPT !.clients = @ \cup {probe.next_id},
                           !.next_id = @ + 1,
                           !.pc[AcceptorThread] = "accept",
                           !.pc[ReaderThread(probe.next_id)] = "read"]
    /\ UNCHANGED <<serverVars, client>>

\* read_message returns Ok(msg) or Err.
ReaderReadMessage(c, ok) ==
    /\ probe.pc[ReaderThread(c)] = "read"
    /\ ok => probe.reads < MaxReads
    /\ probe' = [probe EXCEPT !.pc[ReaderThread(c)] = IF ok THEN "push_lock" ELSE "error_lock",
                              !.reads = IF ok THEN @ + 1 ELSE @]
    /\ UNCHANGED <<serverVars, client>>

\* `incoming.lock().unwrap().push((client_id, msg))`, the guard dropped.
ReaderPush(c) ==
    /\ probe.pc[ReaderThread(c)] = "push_in"
    /\ probe' = [release(probe, "incoming")
                    EXCEPT !.incoming = Append(@, <<c, "message">>),
                           !.pc[ReaderThread(c)] = "read"]
    /\ UNCHANGED <<serverVars, client>>

\* The push of the synthetic Disconnect.
ReaderPushDisconnect(c) ==
    /\ probe.pc[ReaderThread(c)] = "error_in"
    /\ probe' = reader_error_pushed(probe, c)
    /\ UNCHANGED <<serverVars, client>>

\* `clients.lock().unwrap().remove(&client_id)`, the guard dropped, and the end
\* of the thread.
ReaderRemoveWriter(c) ==
    /\ probe.pc[ReaderThread(c)] = "remove_in"
    /\ probe' = [release(probe, "clients") EXCEPT !.clients = @ \ {c},
                                                  !.pc[ReaderThread(c)] = "done"]
    /\ UNCHANGED <<serverVars, client>>

\* Mutex::lock returns in a waiting thread: the mutex is free.
LockAcquired(t) ==
    /\ WaitsFor(probe.pc[t]) # "none"
    /\ probe.holder[WaitsFor(probe.pc[t])] = Nobody
    /\ probe' = acquire(probe, t)
    /\ UNCHANGED <<serverVars, client>>

LocksInit ==
    /\ ServerInit(WorldSession_new(AuthCode))
    /\ client = Unused
    /\ probe = [op |-> "new",
                pc |-> [t \in Threads |-> IF t = TickThread THEN "idle"
                                          ELSE IF t = AcceptorThread THEN "accept"
                                          ELSE "unborn"],
                holder |-> [m \in {"incoming", "clients"} |-> Nobody],
                incoming |-> <<>>, clients |-> {}, next_id |-> 0, reads |-> 0]

NextLocks ==
    \/ \E call \in {"send", "broadcast", "broadcast_except", "disconnect"} : TickCall(call)
    \/ \E failed \in SUBSET (0..(MaxConns - 1)) : TickCallDone(failed)
    \/ TickReceiveCall
    \/ TickReceiveDone
    \/ AcceptorAccept
    \/ AcceptorInsert
    \/ \E c \in 0..(MaxConns - 1) : \E ok \in BOOLEAN : ReaderReadMessage(c, ok)
    \/ \E c \in 0..(MaxConns - 1) : ReaderPush(c)
    \/ \E c \in 0..(MaxConns - 1) : ReaderPushDisconnect(c)
    \/ \E c \in 0..(MaxConns - 1) : ReaderRemoveWriter(c)
    \/ \E t \in Threads : LockAcquired(t)

SpecLocks == LocksInit /\ [][NextLocks]_vars

(***************************************************************************)
(* The streaming stage tick after tick, for Bob alone in the game: Bob     *)
(* walks from chunk to chunk at most MaxWalks times and then stands; the   *)
(* stage runs for ever.  probe.ws is the session, probe.calls the calls of *)
(* the last stage, probe.limited says that some stage had more chunks to   *)
(* send than it may send in a tick.                                        *)
(***************************************************************************)
MaxWalks == 2

\* Bob's position changes by one chunk along x or z between two stages.
Walk(dx, dz) ==
    /\ probe.walks < MaxWalks
    /\ probe' = [probe EXCEPT !.op = "walk",
                              !.ws.players[0].position =
                                  VAdd(@, <<dx * CHUNK_SIZE * Unit, 0, dz * CHUNK_SIZE * Unit>>),
                              !.walks = @ + 1]
    /\ UNCHANGED <<serverVars, client>>

\* server_stream_chunks of one tick.
StreamStage ==
    /\ \E pick \in StreamPicks(probe.ws) :
          probe' = Only({[probe EXCEPT !.op = "stream", !.ws = sv.ws, !.disk = sv.disk,
                                       !.calls = sv.calls,
                                       !.limited = @ \/ Cardinality(ToSend(probe.ws, 0))
                                                            > MAX_CHUNKS_PER_PLAYER_PER_TICK] :
                         sv \in {server_stream_chunks([ProbeView EXCEPT !.writers = {0}],
                                                      pick)}})
    /\ UNCHANGED <<serverVars, client>>

SettleInit ==
    /\ ServerInit(WorldSession_new(AuthCode))
    /\ client = Unused
    /\ probe = [op |-> "new", ws |-> Joined.ws, disk |-> EmptyDisk, calls |-> <<>>,
                limited |-> FALSE, walks |-> 0]

NextSettle ==
    \/ \E d \in {<<1, 0>>, <<0, 1>>, <<-1, 0>>} : Walk(d[1], d[2])
    \/ StreamStage

\* The stage is a system of the schedule: it runs in every tick.
SpecSettle == SettleInit /\ [][NextSettle]_vars /\ WF_vars(StreamStage)

(***************************************************************************)
(* Properties.                                                             *)
(***************************************************************************)
\* The step that handles the head of the batch.
Handling == stage = "intake" /\ messages # <<>> /\ messages' = Tail(messages)

\* The step that handles the head of the batch, a message of the given type.
HandlingOf(type) == Handling /\ messages[1].msg.type = type

\* The session's four per-player maps.
PlayerEntries(ws) ==
    <<ws.players, ws.player_names, ws.inventories, ws.loaded_chunks_per_player>>

ConnectRejected == [type |-> "ConnectRejected", reason |-> "Invalid auth code"]

\* C1: handling a Connect of client c whose auth code is not the session's makes
\* exactly two transport calls, send(c, ConnectRejected{"Invalid auth code"}) and
\* disconnect(c), leaves c without a writer, creates no PlayerState, name,
\* Inventory or streamed-chunk entry (the four maps and the whole session stay as
\* they were) and sends no PlayerJoined.
C1_RejectedConnect ==
    [][(HandlingOf("Connect") /\ messages[1].msg.auth_code # session.auth_code) =>
        LET c == messages[1].client_id
        IN  /\ Len(calls') = 2
            /\ calls'[1].op = "send" /\ calls'[1].to = c /\ calls'[1].msg = ConnectRejected
            /\ calls'[1].wrote = (clients \cap {c}) \ closed
            /\ calls'[2].op = "disconnect" /\ calls'[2].to = c
            /\ c \notin clients'
            /\ PlayerEntries(session') = PlayerEntries(session)
            /\ session' = session
            /\ \A i \in DOMAIN calls' : calls'[i].msg.type # "PlayerJoined"]_vars

\* C1's case: a Connect with a wrong code was handled, the rejection was written
\* to its sender, and the sender is no player.
C1_Witness ==
    /\ handled.msg.type = "Connect"
    /\ handled.msg.auth_code # session.auth_code
    /\ Len(calls) = 2
    /\ calls[1].msg = ConnectRejected
    /\ calls[1].wrote = {handled.client_id}
    /\ handled.client_id \notin DOMAIN session.players
    /\ handled.client_id \notin clients

\* The step in which receive() hands the inbox to the pipeline.
Receiving == stage = "receive" /\ session'.tick = session.tick + 1

\* C2: once a Connect of client c has been rejected, no batch that receive()
\* returns holds a message of c other than a Disconnect.
C2_NothingAfterReject ==
    [][Receiving =>
        \A i \in DOMAIN messages' :
            messages'[i].client_id \in rejected => messages'[i].msg.type = "Disconnect"]_vars

\* The calls of cs that carry a message of the given type.
CallsOf(cs, type) == {i \in DOMAIN cs : cs[i].msg.type = type}

\* The clients a message written by the calls of cs at the indices I reached.
Reached(cs, I) == UNION {cs[i].wrote : i \in I}

\* The clients a write reaches: those with a writer on an open connection.
Connected == clients \ closed

\* C3: handling an InputCommand with sequence number s of a registered player c
\* sends exactly one PlayerStateUpdate, to c, carrying s and c's state after the
\* move, and sends PlayerPositionUpdate{c, position, yaw, pitch} to every other
\* registered player and not to c.
C3_StateUpdateEcho ==
    [][(HandlingOf("InputCommand") /\ messages[1].client_id \in DOMAIN session.players) =>
        LET c == messages[1].client_id
            after == session'.players[c]
            echo == CallsOf(calls', "PlayerStateUpdate")
            told == CallsOf(calls', "PlayerPositionUpdate")
        IN  /\ Cardinality(echo) = 1
            /\ \A i \in echo :
                  /\ calls'[i].op = "send" /\ calls'[i].to = c
                  /\ calls'[i].msg.last_processed_input_seq = messages[1].msg.sequence
                  /\ calls'[i].msg.position = after.position
                  /\ calls'[i].msg.velocity_y = after.velocity_y
                  /\ calls'[i].msg.grounded = after.grounded
            /\ {calls'[i].to : i \in told} = (DOMAIN session.players) \ {c}
            /\ \A i \in told :
                  calls'[i].msg = [type |-> "PlayerPositionUpdate", player_id |-> c,
                                   position |-> after.position, yaw |-> after.yaw,
                                   pitch |-> after.pitch]]_vars

\* The half of C3 that the code keeps: PlayerPositionUpdate goes to every other
\* registered player, once each, not to c, and nothing else is sent.
C3_PositionToOthers ==
    [][(HandlingOf("InputCommand") /\ messages[1].client_id \in DOMAIN session.players) =>
        LET c == messages[1].client_id
            after == session'.players[c]
        IN  /\ {calls'[i].to : i \in DOMAIN calls'} = (DOMAIN session.players) \ {c}
            /\ Len(calls') = Cardinality((DOMAIN session.players) \ {c})
            /\ \A i \in DOMAIN calls' :
                  /\ calls'[i].op = "send"
                  /\ calls'[i].msg = [type |-> "PlayerPositionUpdate", player_id |-> c,
                                      position |-> after.position, yaw |-> after.yaw,
                                      pitch |-> after.pitch]]_vars

\* C8: no ChunkData{c} is written to a client that was written ChunkData{c} and
\* no ChunkUnload{c} since.
C8_NoDuplicateChunkData == resent = {}

\* Every repeated ChunkData is one of the initial chunks of a Connect; the
\* streaming stage repeats none.
C8_OnlyOnConnect == [][resent' # resent => HandlingOf("Connect")]_vars

\* The head of the batch is a DropItem of a registered player that names a slot
\* outside 0..35 or an empty slot, or asks for 0 items.
VoidDrop ==
    /\ HandlingOf("DropItem")
    /\ messages[1].client_id \in DOMAIN session.players
    /\ LET m == messages[1].msg
           inv == session.inventories[messages[1].client_id]
       IN  \/ m.slot \notin 0..(INVENTORY_SLOTS - 1)
           \/ ~inv.slots[m.slot].some
           \/ m.count = 0

\* The head of the batch is a Place of a registered player whose active slot is
\* empty.
VoidPlace ==
    /\ HandlingOf("BlockInteraction")
    /\ messages[1].msg.action = "Place"
    /\ messages[1].client_id \in DOMAIN session.players
    /\ ~active_block(session.inventories[messages[1].client_id]).some

\* C7: such a DropItem and such a Place change nothing of the WorldSession, send
\* nothing, and leave the pipeline running.
C7_SilentNoOp ==
    [][(VoidDrop \/ VoidPlace) => (session' = session /\ calls' = <<>> /\ ~panicked')]_vars

\* The cases of C7 other than the slot outside 0..35: the empty slot, the count
\* of 0 and the Place with an empty active slot are silent no-ops.
C7_InRangeNoOp ==
    [][((VoidDrop /\ messages[1].msg.slot \in 0..(INVENTORY_SLOTS - 1)) \/ VoidPlace) =>
        (session' = session /\ calls' = <<>> /\ ~panicked')]_vars

\* The hit of the Break or Place at the head of the batch.
HeadHit == dda_raycast(messages[1].msg.origin, messages[1].msg.direction, session.chunk_map)

\* The head of the batch is a Break of a registered player whose ray hits.
Breaking ==
    /\ HandlingOf("BlockInteraction")
    /\ messages[1].msg.action = "Break"
    /\ messages[1].client_id \in DOMAIN session.players
    /\ HeadHit.hit

\* The message of the given type was written to every connected client.
Broadcast(cs, type) ==
    CallsOf(cs, type) # {} /\ Reached(cs, CallsOf(cs, type)) = Connected

\* C5: a Break that hits cell p holding block B turns p into Air and broadcasts
\* BlockChanged{p, Air}; in Survival it creates exactly one dropped item, under
\* the fresh id next_entity_id, with stack B x 1 at the centre of p, velocity
\* (0, 4, 0), not grounded, age 0, and broadcasts its DroppedItemSpawned; in
\* Creative it creates no dropped item.
C5_BreakDropsItem ==
    [][Breaking =>
        LET c == messages[1].client_id
            p == HeadHit.block_pos
            B == ChunkMap_get_block(session.chunk_map, p[1], p[2], p[3])
            id == session.next_entity_id
            item == [stack |-> [block |-> B, count |-> 1], position |-> BlockCentre(p),
                     velocity |-> <<0, 4 * Unit, 0>>, grounded |-> FALSE, age |-> 0]
        IN  /\ is_solid(B)
            /\ ChunkMap_get_block(session'.chunk_map, p[1], p[2], p[3]) = "Air"
            /\ Broadcast(calls', "BlockChanged")
            /\ \A i \in CallsOf(calls', "BlockChanged") :
                  calls'[i].msg.position = p /\ calls'[i].msg.new_type = "Air"
            /\ IF session.players[c].game_mode = "Survival"
               THEN /\ id \notin DOMAIN session.dropped_items
                    /\ session'.dropped_items = Insert(session.dropped_items, id, item)
                    /\ Broadcast(calls', "DroppedItemSpawned")
                    /\ \A i \in CallsOf(calls', "DroppedItemSpawned") :
                          calls'[i].msg = DroppedItemSpawned(id, item)
               ELSE /\ session'.dropped_items = session.dropped_items
                    /\ CallsOf(calls', "DroppedItemSpawned") = {}]_vars

\* The message of the given type was written to every connected client but c.
BroadcastExcept(cs, type, c) ==
    Cardinality(CallsOf(cs, type)) = 1 /\ Reached(cs, CallsOf(cs, type)) = Connected \ {c}

\* What the code does keep of C5: all of it, with both messages written to every
\* connected client but the player who broke the block.
C5_BreakToldToOthers ==
    [][Breaking =>
        LET c == messages[1].client_id
            p == HeadHit.block_pos
            B == ChunkMap_get_block(session.chunk_map, p[1], p[2], p[3])
            id == session.next_entity_id
            item == [stack |-> [block |-> B, count |-> 1], position |-> BlockCentre(p),
                     velocity |-> <<0, 4 * Unit, 0>>, grounded |-> FALSE, age |-> 0]
        IN  /\ is_solid(B)
            /\ ChunkMap_get_block(session'.chunk_map, p[1], p[2], p[3]) = "Air"
            /\ BroadcastExcept(calls', "BlockChanged", c)
            /\ \A i \in CallsOf(calls', "BlockChanged") :
                  calls'[i].msg.position = p /\ calls'[i].msg.new_type = "Air"
            /\ IF session.players[c].game_mode = "Survival"
               THEN /\ id \notin DOMAIN session.dropped_items
                    /\ session'.dropped_items = Insert(session.dropped_items, id, item)
                    /\ BroadcastExcept(calls', "DroppedItemSpawned", c)
                    /\ \A i \in CallsOf(calls', "DroppedItemSpawned") :
                          calls'[i].msg = DroppedItemSpawned(id, item)
               ELSE /\ session'.dropped_items = session.dropped_items
                    /\ CallsOf(calls', "DroppedItemSpawned") = {}]_vars

\* The square of the distance between two positions.
DistanceSquared(a, b) ==
    (a[1] - b[1]) * (a[1] - b[1]) + (a[2] - b[2]) * (a[2] - b[2])
    + (a[3] - b[3]) * (a[3] - b[3])

\* C4: after a PlayerStateUpdate the local position is the server's exactly when
\* the distance between the local position before it and the server's exceeds
\* RECONCILE_THRESHOLD, and is the local position before it otherwise.
C4_SnapBeyondThreshold ==
    probe.op = "reconcile" =>
        client.position =
            IF DistanceSquared(probe.before.position, probe.msg.position)
                   > RECONCILE_THRESHOLD * RECONCILE_THRESHOLD
            THEN probe.msg.position
            ELSE probe.before.position

\* C4's case: a PlayerStateUpdate whose position is exactly RECONCILE_THRESHOLD
\* away from the local one was taken and the local position was kept.
C4_Witness ==
    /\ probe.op = "reconcile"
    /\ DistanceSquared(probe.before.position, probe.msg.position)
           = RECONCILE_THRESHOLD * RECONCILE_THRESHOLD
    /\ client.position = probe.before.position
    /\ client.position # probe.msg.position
    /\ client.velocity_y = probe.msg.velocity_y

\* The chunk a world coordinate lies in and its cell there, by floor division.
ChunkOf(w) == <<w[1] \div CHUNK_SIZE, w[3] \div CHUNK_SIZE>>

CellOf(w) == Chunk_index(w[1] % CHUNK_SIZE, w[2], w[3] % CHUNK_SIZE)

InHeight(w) == 0 <= w[2] /\ w[2] < CHUNK_HEIGHT

\* The content of a ChunkMap but for its dirty flags.
Blocks(cm) == [pos \in DOMAIN cm |-> cm[pos].blocks]

\* C9: right after set_block(w, b) at a w in a loaded chunk and in the height
\* range, get_block(w) is b, the write is in cell CellOf(w) of chunk ChunkOf(w),
\* and that is the only cell that differs from before; at every w whose chunk is
\* not loaded or outside the height range get_block is Air, and it never fails.
C9_GetAfterSet ==
    /\ (probe.op = "set" /\ InHeight(probe.w) /\ ChunkOf(probe.w) \in DOMAIN probe.before) =>
          /\ ChunkMap_get_block(probe.chunk_map, probe.w[1], probe.w[2], probe.w[3]) = probe.b
          /\ ArrayRead(probe.chunk_map[ChunkOf(probe.w)].blocks, CellOf(probe.w)) = probe.b
          /\ Blocks(probe.chunk_map) =
                 [Blocks(probe.before) EXCEPT ![ChunkOf(probe.w)] =
                      ArrayWrite(@, CellOf(probe.w), probe.b)]
          /\ \A w \in WorldCoords \ {probe.w} :
                 ChunkMap_get_block(probe.chunk_map, w[1], w[2], w[3])
                     = ChunkMap_get_block(probe.before, w[1], w[2], w[3])
    /\ probe.op \in {"new", "load", "set"} =>
          \A w \in WorldCoords :
              /\ ChunkMap_get_block(probe.chunk_map, w[1], w[2], w[3]) \in BlockType
              /\ (~InHeight(w) \/ ChunkOf(w) \notin DOMAIN probe.chunk_map) =>
                     ChunkMap_get_block(probe.chunk_map, w[1], w[2], w[3]) = "Air"

\* C9's case: a block other than the cell's was written at negative wx and wz in
\* a loaded chunk, and another chunk is loaded too.
C9_Witness ==
    /\ probe.op = "set"
    /\ probe.w[1] < 0 /\ probe.w[3] < 0 /\ InHeight(probe.w)
    /\ ChunkOf(probe.w) \in DOMAIN probe.before
    /\ Cardinality(DOMAIN probe.before) > 1
    /\ ChunkMap_get_block(probe.before, probe.w[1], probe.w[2], probe.w[3]) # probe.b
    /\ ChunkMap_get_block(probe.chunk_map, probe.w[1], probe.w[2], probe.w[3]) = probe.b

\* The position after the X step of the move recorded in probe, and the
\* unobstructed positions of its three steps.
AfterX == <<probe.pos[1], probe.from[2], probe.from[3]>>

TriedX == <<probe.from[1] + probe.delta[1], probe.from[2], probe.from[3]>>

TriedY == <<probe.pos[1], probe.from[2] + probe.delta[2], probe.from[3]>>

TriedZ == <<probe.pos[1], probe.pos[2], probe.from[3] + probe.delta[3]>>

\* A move from a position that overlaps no solid block.
FreeMove == probe.op = "move" /\ ~collides_with_world(probe.from, PhysicsWorld)

\* C10: a move from a position that overlaps no solid block ends at a position
\* that overlaps none; an axis whose unobstructed step overlaps ends on a block
\* surface (the box's leading face at a whole coordinate), and on the Y axis
\* hit_floor (delta.y <= 0) or hit_ceiling (delta.y > 0) is set.
C10_NeverOverlaps ==
    FreeMove =>
        /\ ~collides_with_world(probe.pos, PhysicsWorld)
        /\ collides_with_world(TriedX, PhysicsWorld) =>
              IF probe.delta[1] > 0 THEN (probe.pos[1] + PLAYER_HALF_WIDTH) % Unit = 0
              ELSE (probe.pos[1] - PLAYER_HALF_WIDTH) % Unit = 0
        /\ collides_with_world(TriedY, PhysicsWorld) =>
              IF probe.delta[2] > 0
              THEN (probe.pos[2] + PLAYER_HEIGHT) % Unit = 0 /\ probe.hit_ceiling
              ELSE probe.pos[2] % Unit = 0 /\ probe.hit_floor
        /\ collides_with_world(TriedZ, PhysicsWorld) =>
              IF probe.delta[3] > 0 THEN (probe.pos[3] + PLAYER_HALF_WIDTH) % Unit = 0
              ELSE (probe.pos[3] - PLAYER_HALF_WIDTH) % Unit = 0

\* What the code keeps of C10: all of it for a move of less than a block on each
\* axis.
C10_ShortMoves ==
    (FreeMove /\ \A i \in 1..3 : Abs(probe.delta[i]) < Unit) => C10_NeverOverlaps

\* The surface and flag parts of C10 hold for every move.
C10_ClampedAndFlagged ==
    FreeMove =>
        /\ collides_with_world(TriedX, PhysicsWorld) =>
              IF probe.delta[1] > 0 THEN (probe.pos[1] + PLAYER_HALF_WIDTH) % Unit = 0
              ELSE (probe.pos[1] - PLAYER_HALF_WIDTH) % Unit = 0
        /\ collides_with_world(TriedY, PhysicsWorld) =>
              IF probe.delta[2] > 0
              THEN (probe.pos[2] + PLAYER_HEIGHT) % Unit = 0 /\ probe.hit_ceiling
              ELSE probe.pos[2] % Unit = 0 /\ probe.hit_floor
        /\ (probe.hit_floor \/ probe.hit_ceiling) => collides_with_world(TriedY, PhysicsWorld)

\* The pickup stage of a tick.
PickingUp == stage = "pickup" /\ stage' = "autosave"

\* The players within the pickup radius of a dropped item whose inventory has a
\* slot for its block: an empty slot or a stack of the block below MAX_STACK.
WithRoom(ws, e) ==
    LET item == ws.dropped_items[e]
    IN  {c \in DOMAIN ws.players :
            /\ DistanceSquared(ws.players[c].position, item.position)
                   <= PickupRadius * PickupRadius
            /\ \E i \in 0..(INVENTORY_SLOTS - 1) :
                  LET slot == ws.inventories[c].slots[i]
                  IN  ~slot.some \/ (slot.block = item.stack.block /\ slot.count < MAX_STACK)}

RECURSIVE CountIn(_, _, _)
\* The items of block b in the slots below n of an inventory.
CountIn(inv, b, n) ==
    IF n = 0 THEN 0
    ELSE CountIn(inv, b, n - 1)
         + (IF inv.slots[n - 1].some /\ inv.slots[n - 1].block = b
            THEN inv.slots[n - 1].count ELSE 0)

RECURSIVE CountOf(_, _, _)
\* The items of block b in the dropped items es of a session.
CountOf(ws, b, es) ==
    IF es = {} THEN 0
    ELSE LET e == CHOOSE x \in es : TRUE
         IN  (IF ws.dropped_items[e].stack.block = b
              THEN ws.dropped_items[e].stack.count ELSE 0) + CountOf(ws, b, es \ {e})

\* The dropped items past the pickup delay.
Aged(ws) == {e \in DOMAIN ws.dropped_items : ws.dropped_items[e].age >= PickupDelay}

\* An aged item with no player with room in reach stays as it is and no
\* DroppedItemRemoved is sent for it; one with such a player is removed and its
\* DroppedItemRemoved is broadcast.
C6_LeftUntilRoom ==
    [][PickingUp =>
        \A e \in Aged(session) :
            IF WithRoom(session, e) = {}
            THEN /\ e \in DOMAIN session'.dropped_items
                 /\ session'.dropped_items[e] = session.dropped_items[e]
                 /\ \A i \in CallsOf(calls', "DroppedItemRemoved") : calls'[i].msg.id # e
            ELSE /\ e \notin DOMAIN session'.dropped_items
                 /\ \E i \in CallsOf(calls', "DroppedItemRemoved") :
                       calls'[i].msg.id = e /\ calls'[i].op = "broadcast"]_vars

\* C6: in pickup resolution an aged item with no player with room in reach
\* stays and no DroppedItemRemoved is sent for it; once a player in reach has a
\* slot for it, the pickup resolution removes the item and transfers it: the
\* one player of Bob's game holds as many more items of the block as the
\* removed items held.
C6_PickedUpOnceRoom ==
    [][PickingUp =>
        /\ \A e \in Aged(session) :
              IF WithRoom(session, e) = {}
              THEN /\ e \in DOMAIN session'.dropped_items
                   /\ \A i \in CallsOf(calls', "DroppedItemRemoved") : calls'[i].msg.id # e
              ELSE e \notin DOMAIN session'.dropped_items
        /\ \A b \in BlockType :
              CountIn(session'.inventories[0], b, INVENTORY_SLOTS)
                  = CountIn(session.inventories[0], b, INVENTORY_SLOTS)
                    + CountOf(session, b, (DOMAIN session.dropped_items)
                                              \ DOMAIN session'.dropped_items)]_vars

(***************************************************************************)
(* The ray of a cast, as geometry: the points origin + s * direction for   *)
(* s >= 0.  A value of s is kept multiplied by RayDen, which makes the     *)
(* s at which the ray meets a face of a cell an integer.                   *)
(***************************************************************************)
RayDen(d) ==
    (IF d[1] = 0 THEN 1 ELSE Abs(d[1])) * (IF d[2] = 0 THEN 1 ELSE Abs(d[2]))
    * (IF d[3] = 0 THEN 1 ELSE Abs(d[3]))

\* The s at which the ray enters and leaves the slab of cell c on axis i (d[i] # 0).
EnterAt(o, d, c, i) ==
    (IF d[i] > 0 THEN c[i] * Unit - o[i] ELSE o[i] - (c[i] + 1) * Unit)
    * (RayDen(d) \div Abs(d[i]))

LeaveAt(o, d, c, i) ==
    (IF d[i] > 0 THEN (c[i] + 1) * Unit - o[i] ELSE o[i] - c[i] * Unit)
    * (RayDen(d) \div Abs(d[i]))

MaxOf(S) == CHOOSE x \in S : \A y \in S : y <= x

MinOf(S) == CHOOSE x \in S : \A y \in S : x <= y

RayAxes(d) == {i \in 1..3 : d[i] # 0}

\* The s at which the ray enters cell c and the s at which it leaves it.
EntryOf(o, d, c) == MaxOf({0} \cup {EnterAt(o, d, c, i) : i \in RayAxes(d)})

ExitOf(o, d, c) == MinOf({LeaveAt(o, d, c, i) : i \in RayAxes(d)})

\* On an axis the ray does not move along, it stays in the slab of its origin.
InSlabs(o, d, c) == \A i \in 1..3 : d[i] = 0 => o[i] \div Unit = c[i]

\* The ray meets cell c (be it at a single point of its boundary).
Meets(o, d, c) == InSlabs(o, d, c) /\ EntryOf(o, d, c) <= ExitOf(o, d, c)

\* The ray runs through cell c over a positive length.
Crosses(o, d, c) == InSlabs(o, d, c) /\ EntryOf(o, d, c) < ExitOf(o, d, c)

\* Max reach, measured as the source measures it: from the origin to the
\* cell's integer position.
InReach(o, c) ==
    (c[1] * Unit - o[1]) * (c[1] * Unit - o[1]) + (c[2] * Unit - o[2]) * (c[2] * Unit - o[2])
    + (c[3] * Unit - o[3]) * (c[3] * Unit - o[3]) <= MAX_REACH * MAX_REACH * Unit * Unit

\* The normal of a cell entered through its face on axis a.
EntryNormal(d, a) == [i \in 1..3 |-> IF i # a THEN 0 ELSE IF d[a] > 0 THEN -1 ELSE 1]

\* The solid cells of the world of the casts.
SolidCells == {c \in RayCells : ChunkMap_get_block(probe.chunk_map, c[1], c[2], c[3]) # "Air"}

\* A ray has been cast (the zero vector has no direction and gives no ray).
RayCast == probe.op = "cast" /\ probe.direction # <<0, 0, 0>>

OriginCell == <<probe.origin[1] \div Unit, probe.origin[2] \div Unit, probe.origin[3] \div Unit>>

StackCounts == {0, 1, MAX_STACK - 1, MAX_STACK, MAX_STACK + 1, 4 * MAX_STACK}

CountInRange(n) == 1 <= n /\ n <= MAX_STACK

\* C12: every non-empty slot of every inventory and every dropped item holds a
\* count in 1..MAX_STACK, and ItemStack::new never builds a stack of more than
\* MAX_STACK.
C12_CountsInRange ==
    /\ \A c \in DOMAIN session.inventories :
          \A i \in DOMAIN session.inventories[c].slots :
             session.inventories[c].slots[i].some =>
                CountInRange(session.inventories[c].slots[i].count)
    /\ \A e \in DOMAIN session.dropped_items :
          CountInRange(session.dropped_items[e].stack.count)
    /\ \A n \in StackCounts : ItemStack_new("Stone", n).count <= MAX_STACK

\* With a second player connected, a pickup has just filled slot 0 of player 0
\* up to MAX_STACK.
C12_Witness ==
    /\ stage = "autosave"
    /\ \E i \in 1..Len(calls) : calls[i].msg.type = "DroppedItemRemoved"
    /\ session.inventories[0].slots[0].some
    /\ session.inventories[0].slots[0].count = MAX_STACK
    /\ Cardinality(DOMAIN session.inventories) = 2

\* The messages of connection c in a queue, in their order.
FromOf(q, c) == SelectSeq(q, LAMBDA m : m.client_id = c)

\* The reader of connection c is reading; has ended (its thread is over).
Reading(rs, c) == c \in DOMAIN rs /\ rs[c] = "reading"

Ended(rs, n, c) == c < n /\ c \notin DOMAIN rs

\* A step in which a message of connection c is appended to the inbox.
Pushes(c) == Len(incoming') > Len(incoming) /\ incoming'[Len(incoming')].client_id = c

Disconnect(c) == [client_id |-> c, msg |-> [type |-> "Disconnect"]]

\* C13: a reader whose read fails appends exactly one (c, Disconnect) at the end
\* of the inbox, behind everything read from c before, and reads no more; from
\* then on nothing of c is appended; when the reader has ended the writer of c
\* is gone; and a step of a reader touches nothing of the pipeline, which meets
\* the Disconnect only in a batch of receive().
C13_SyntheticDisconnect ==
    [][\A c \in 0..(MaxConns - 1) :
          /\ (Reading(readers, c) /\ ~Reading(readers', c)) =>
                incoming' = Append(incoming, Disconnect(c))
          /\ (Reading(readers, c) /\ c \in closed /\ Pushes(c)) =>
                incoming' = Append(incoming, Disconnect(c)) /\ ~Reading(readers', c)
          /\ (c < next_id /\ ~Reading(readers, c)) => ~Pushes(c) /\ ~Reading(readers', c)
          /\ Ended(readers', next_id', c) => c \notin clients'
          /\ (Pushes(c) \/ readers' # readers) =>
                UNCHANGED <<session, disk, stage, messages, handled, calls>>]_vars

\* The reader of a connection has ended: its Disconnect lies in the inbox behind
\* a message read from it before, and its writer is gone.
C13_Witness ==
    \E c \in 0..(MaxConns - 1) :
        /\ Ended(readers, next_id, c)
        /\ c \notin clients
        /\ Len(FromOf(incoming, c)) = 2
        /\ FromOf(incoming, c)[1].msg.type = "InputCommand"
        /\ FromOf(incoming, c)[2] = Disconnect(c)

\* The calls of cs that try a write to client c.
Targeted(cs, c) ==
    \E i \in DOMAIN cs :
        \/ cs[i].op = "send" /\ cs[i].to = c
        \/ cs[i].op = "broadcast"
        \/ cs[i].op = "broadcast_except" /\ cs[i].to # c

\* A step of the tick thread in which a write to client c failed.
WriteFails(c) == c \in clients /\ c \in closed /\ calls' # calls /\ Targeted(calls', c)

\* A Disconnect of c waits in the inbox or in the batch being handled.
Pending(c) ==
    \/ \E i \in DOMAIN incoming : incoming[i] = Disconnect(c)
    \/ \E i \in DOMAIN messages : messages[i] = Disconnect(c)

\* The server view of the current state had every socket been open.
AllOpen == [View EXCEPT !.closed = {}]

\* The step ends as the step of the view sv ends, but for the writes to closed
\* sockets: the same session and disk, the same calls, each written to the same
\* clients less the closed ones.
SameButForClosed(sv) ==
    /\ session' = sv.ws
    /\ disk' = sv.disk
    /\ Len(calls') = Len(sv.calls)
    /\ \A i \in DOMAIN calls' :
          /\ calls'[i].op = sv.calls[i].op
          /\ calls'[i].to = sv.calls[i].to
          /\ calls'[i].msg = sv.calls[i].msg
          /\ calls'[i].wrote = sv.calls[i].wrote \ closed

SequencesOf(q, c) ==
    LET cmds == SelectSeq(q, LAMBDA m : m.client_id = c /\ m.msg.type = "InputCommand")
    IN  [i \in DOMAIN cmds |-> cmds[i].msg.sequence]

Increasing(ns) == \A i, j \in DOMAIN ns : i < j => ns[i] < ns[j]

\* C15: receive() returns the whole inbox and leaves it empty, the batch before
\* it having been handled to its end; between two receive() the inbox only
\* grows at its end and the batch only loses its head, so that a message
\* appended after receive() waits for the next one; and the messages of a
\* connection, in the batch and behind it in the inbox, are in the order in
\* which they were read, none of them twice.
C15_InboxOncePerTick ==
    /\ [](\A c \in 0..(MaxConns - 1) : Increasing(SequencesOf(messages \o incoming, c)))
    /\ [][/\ Receiving => messages = <<>> /\ messages' = incoming /\ incoming' = <<>>
          /\ ~Receiving =>
                /\ \/ incoming' = incoming
                   \/ /\ Len(incoming') = Len(incoming) + 1
                      /\ SubSeq(incoming', 1, Len(incoming)) = incoming
                      /\ nread' = nread + 1 \/ incoming'[Len(incoming')].msg.type = "Disconnect"
                /\ messages' = messages \/ (messages # <<>> /\ messages' = Tail(messages))
          /\ nread' # nread => Len(incoming') = Len(incoming) + 1]_vars

\* A message of a connection is being handled while a later message of the same
\* connection, read after receive(), waits in the inbox.
C15_Witness ==
    /\ stage = "intake"
    /\ \E c \in 0..(MaxConns - 1) :
          /\ Len(SequencesOf(messages, c)) = 1
          /\ Len(SequencesOf(incoming, c)) = 1

(***************************************************************************)
(* C16: a write that blocks or fails does not stall the tick.              *)
(***************************************************************************)
\* The tick thread is inside a write that does not return: whatever it does
\* in the stage it is in writes to a socket whose peer does not read.
Stalled ==
    /\ full # {}
    /\ ~panicked
    /\ \/ /\ stage = "intake"
          /\ messages # <<>>
          /\ WriteBlocks(HandleMessage(View, messages[1].client_id, messages[1].msg))
       \/ /\ stage = "stream"
          /\ \A pick \in StreamPicks(session) : WriteBlocks(server_stream_chunks(View, pick))
       \/ /\ stage = "physics"
          /\ \A dt \in FrameTimes : WriteBlocks(server_dropped_item_physics(View, dt))
       \/ /\ stage = "pickup"
          /\ \A collected \in Collected(session) :
                 WriteBlocks(server_pickup_items(View, collected))
       \/ /\ stage = "autosave"
          /\ WriteBlocks(server_auto_save(View))

\* C16: whatever sockets fail or are not drained by their peer, the tick
\* thread is never kept waiting by a write: the pipeline goes on, and with it
\* the messages of the other clients.
C16_TickNeverStalls == ~Stalled

(***************************************************************************)
(* C17: the five stages of a tick, once each and in order.                 *)
(***************************************************************************)
\* The stage after each stage of the tick thread: the intake goes on as long
\* as the batch has messages, and an empty inbox leaves nothing to take in.
StageAfter ==
    [s \in {"receive", "intake", "stream", "physics", "pickup", "autosave"} |->
        CASE s = "receive" -> {"intake", "stream"}
          [] s = "intake" -> {"intake", "stream"}
          [] s = "stream" -> {"physics"}
          [] s = "physics" -> {"pickup"}
          [] s = "pickup" -> {"autosave"}
          [] s = "autosave" -> {"receive"}]

\* A step starts a tick: server_process_messages is entered.
StartsTick == stage = "receive" /\ stage' # "receive"

\* The stages follow one another in the order of the chain, the session is
\* changed by the stage that is running and by nothing else, and its tick
\* counter is one more when a tick starts and the same in every other step.
StagesInOrder ==
    /\ stage' # stage => stage' \in StageAfter[stage]
    /\ session' # session => (stage # stage' \/ stage = "intake")
    /\ session'.tick = session.tick + (IF StartsTick THEN 1 ELSE 0)
    /\ ticks' = ticks + (IF StartsTick THEN 1 ELSE 0)

\* The part of C17 the code keeps: the stages that run, run one at a time in
\* the order intake, chunk streaming, dropped-item physics, pickup, autosave,
\* and the tick counter of the session counts the ticks started.
C17_StagesInOrder == [][StagesInOrder]_vars

\* C17: every tick runs the five stages once each, in order and to completion:
\* the order is kept in every step, and no stage is ever left unfinished.
C17_FiveStagesEveryTick == [](~panicked) /\ [][StagesInOrder]_vars

(***************************************************************************)
(* C18: the client's prediction and the server's movement agree.           *)
(***************************************************************************)
\* The client's player and the server's have the same position, vertical
\* velocity and grounded flag.
SameMotion(a, b) ==
    /\ a.position = b.position
    /\ a.velocity_y = b.velocity_y
    /\ a.grounded = b.grounded

\* C18: after every frame, whatever keys were pressed in it and in the frames
\* before, in Creative and in Survival, the client's prediction and the
\* server's handling of the frame's input leave the same position, vertical
\* velocity and grounded flag.
C18_PredictionMatchesServer ==
    probe.op = "frame" => SameMotion(probe.client, probe.server)

\* The part of C18 the code keeps: the two agree after every frame in Creative,
\* and in Survival as long as every frame sent its InputCommand and Space was
\* pressed only in the frame it went down.
C18_PlainFramesMatch ==
    (probe.op = "frame" /\ probe.plain) => SameMotion(probe.client, probe.server)

\* Space held over a landing in Survival: the server has jumped again, the
\* client has not.
C18_HeldJumpDiverges ==
    /\ probe.op = "frame"
    /\ probe.client.game_mode = "Survival"
    /\ probe.held
    /\ probe.sent
    /\ probe.server.velocity_y > 0
    /\ probe.client.velocity_y = 0
    /\ probe.client.grounded
    /\ ~probe.server.grounded

(***************************************************************************)
(* C19: set_block at an unloaded chunk.                                    *)
(***************************************************************************)
\* set_block has just been called at a coordinate whose chunk is not loaded.
SetUnloaded == probe.op = "set" /\ ChunkOf(probe.w) \notin DOMAIN probe.before

\* C19: set_block at a coordinate whose chunk is not loaded leaves the whole
\* ChunkMap as it was: the same chunks, the same blocks, the same dirty flags.
C19_UnloadedSetIsNoOp == SetUnloaded => probe.chunk_map = probe.before

\* The part of C19 the code keeps: no chunk is created and no block of a
\* loaded chunk changes, and a dirty flag that changes is the flag of a loaded
\* chunk next to the unloaded one, set.
C19_UnloadedSetKeepsBlocks ==
    SetUnloaded =>
        /\ DOMAIN probe.chunk_map = DOMAIN probe.before
        /\ Blocks(probe.chunk_map) = Blocks(probe.before)
        /\ \A pos \in DOMAIN probe.before :
               probe.chunk_map[pos].dirty # probe.before[pos].dirty =>
                   /\ probe.chunk_map[pos].dirty
                   /\ Abs(pos[1] - ChunkOf(probe.w)[1]) + Abs(pos[2] - ChunkOf(probe.w)[2]) = 1

(***************************************************************************)
(* C20: the chunks in memory after the chunk-streaming stage.              *)
(***************************************************************************)
\* The step of the chunk-streaming stage.
Streaming == stage = "stream" /\ stage' = "physics"

\* The chunks in the streamed-chunk set of some connected player.
StreamedChunks(ws) == UNION {ws.loaded_chunks_per_player[id] : id \in DOMAIN ws.players}

\* The chunks the streaming step removes from memory.
Evicted == (DOMAIN session.chunk_map) \ DOMAIN session'.chunk_map

AutoSaving == stage = "autosave" /\ stage' = "receive"

\* The metadata save_to_disk writes for a session.
MetaOf(ws) ==
    [present |-> TRUE, seed |-> ws.seed, tick |-> ws.tick,
     next_entity_id |-> ws.next_entity_id]

\* The disk d holds what a save of the session `before` leaves, `after` being
\* the session after it: the metadata of the session, the block array of every
\* chunk that was dirty, and no chunk of the session is dirty any more.
SavedTo(d, before, after) ==
    /\ d.meta = MetaOf(after)
    /\ DOMAIN after.chunk_map = DOMAIN before.chunk_map
    /\ \A pos \in DOMAIN before.chunk_map :
          /\ after.chunk_map[pos].blocks = before.chunk_map[pos].blocks
          /\ ~after.chunk_map[pos].dirty
          /\ before.chunk_map[pos].dirty =>
                 /\ ChunkFileOk(d, pos)
                 /\ d.chunks[pos].blocks = after.chunk_map[pos].blocks

Leaving ==
    /\ HandlingOf("Disconnect")
    /\ messages[1].client_id \in DOMAIN session.players

\* C22: the step that handles the Disconnect of a connected player saves the
\* session if no player is left (metadata and every dirty chunk on disk, no
\* chunk dirty), and leaves the disk and the dirty flags as they are if a player
\* is left.
C22_SaveWhenLastLeaves ==
    [][Leaving =>
          IF DOMAIN session'.players = {}
          THEN SavedTo(disk', session, session')
          ELSE disk' = disk /\ session'.chunk_map = session.chunk_map]_vars

\* The last player has just left after dirtying chunks, and they are saved.
C22_Witness ==
    /\ handled.msg.type = "Disconnect"
    /\ stage \in {"intake", "stream"}
    /\ DOMAIN session.players = {}
    /\ disk.meta = MetaOf(session)
    /\ DOMAIN disk.chunks # {}
    /\ DOMAIN session.chunk_map # {}

\* A player has just left with dirty chunks in memory and another player still
\* connected: nothing is saved.
C22_StayingWitness ==
    /\ handled.msg.type = "Disconnect"
    /\ stage \in {"intake", "stream"}
    /\ DOMAIN session.players # {}
    /\ ~disk.meta.present
    /\ \E pos \in DOMAIN session.chunk_map : session.chunk_map[pos].dirty

(***************************************************************************)
(* C23: ensure_chunk_loaded.                                               *)
(***************************************************************************)
\* ensure_chunk_loaded has just been called for probe.pos.
Ensured == probe.op = "ensure"

\* C23: after ensure_chunk_loaded(pos) the chunk pos is in the ChunkMap and no
\* error has come up; every other chunk and the disk are as before; a chunk that
\* was in memory is untouched; otherwise the chunk is not dirty and has the
\* blocks of its file if the file is there and good, and the generated blocks
\* if the file is missing, unreadable, corrupt or of the wrong size.
C23_EnsureChunkLoaded ==
    Ensured =>
        LET pos == probe.pos
            cm == probe.ws.chunk_map
            files == probe.disk_before.chunks
        IN  /\ pos \in DOMAIN cm
            /\ ~probe.panicked
            /\ probe.disk = probe.disk_before
            /\ DOMAIN cm = (DOMAIN probe.before) \cup {pos}
            /\ \A other \in DOMAIN probe.before : cm[other] = probe.before[other]
            /\ pos \notin DOMAIN probe.before =>
                  /\ ~cm[pos].dirty
                  /\ cm[pos].blocks = IF pos \in DOMAIN files /\ files[pos].valid
                                      THEN files[pos].blocks
                                      ELSE [base |-> pos, over |-> EmptyOver]

\* A chunk whose file holds edited blocks but is corrupt has just been loaded:
\* it is the generated chunk.
C23_Witness ==
    /\ Ensured
    /\ probe.pos \notin DOMAIN probe.before
    /\ probe.pos \in DOMAIN probe.disk.chunks
    /\ ~probe.disk.chunks[probe.pos].valid
    /\ probe.disk.chunks[probe.pos].blocks # GeneratedChunk(probe.pos).blocks
    /\ probe.ws.chunk_map[probe.pos] = GeneratedChunk(probe.pos)

(***************************************************************************)
(* C24: entity ids.                                                        *)
(***************************************************************************)
\* The restart that has just happened followed a save directly: world.dat
\* held the next_entity_id the session had.
RestartedFromSave ==
    /\ probe.op = "restart"
    /\ probe.disk.meta.present
    /\ probe.disk.meta.next_entity_id = probe.next_before

Accepting == HandlingOf("Connect") /\ messages[1].msg.auth_code = session.auth_code

\* The calls of cs that send a message of the given type to client c.
SendsOf(cs, c, type) ==
    {i \in DOMAIN cs : cs[i].op = "send" /\ cs[i].to = c /\ cs[i].msg.type = type}

\* The calls of cs that send PlayerJoined about player id to client c.
JoinedOf(cs, c, id) == {i \in SendsOf(cs, c, "PlayerJoined") : cs[i].msg.player_id = id}

\* What handling the Connect of client c sends, old being the players
\* registered before: ConnectAccepted{c} first of all that goes to c, one
\* InventoryUpdate and one GameModeChanged, one PlayerJoined for each player of
\* old and none about c, one ChunkData for every chunk of the view set of c's
\* position, which is c's streamed set afterwards, and one PlayerJoined{c} to
\* each player of old.
ConnectSends(c, old) ==
    LET cs == calls'
        view == chunks_in_view_radius(session'.players[c].position, VIEW_DISTANCE)
        mine == {i \in DOMAIN cs : cs[i].op = "send" /\ cs[i].to = c}
    IN  /\ mine # {}
        /\ \A i \in mine :
               (\A j \in mine : i <= j) =>
                   cs[i].msg = [type |-> "ConnectAccepted", player_id |-> c]
        /\ Cardinality(SendsOf(cs, c, "ConnectAccepted")) = 1
        /\ Cardinality(SendsOf(cs, c, "InventoryUpdate")) = 1
        /\ Cardinality(SendsOf(cs, c, "GameModeChanged")) = 1
        /\ \A id \in old \ {c} : Cardinality(JoinedOf(cs, c, id)) = 1
        /\ JoinedOf(cs, c, c) = {}
        /\ \A pos \in view :
               Cardinality({i \in SendsOf(cs, c, "ChunkData") : cs[i].msg.pos = pos}) = 1
        /\ \A i \in SendsOf(cs, c, "ChunkData") : cs[i].msg.pos \in view
        /\ session'.loaded_chunks_per_player[c] = view
        /\ \A id \in old \ {c} : Cardinality(JoinedOf(cs, id, c)) = 1

\* C25: every accepted Connect of a client c sends what ConnectSends says.
C25_AcceptedConnectSends ==
    [][Accepting => ConnectSends(messages[1].client_id, DOMAIN session.players)]_vars

\* The part of C25 the code keeps: the accepted Connect of a client that is not
\* registered yet sends what ConnectSends says.
C25_FirstConnectSends ==
    [][(Accepting /\ messages[1].client_id \notin DOMAIN session.players) =>
          ConnectSends(messages[1].client_id, DOMAIN session.players)]_vars

\* A second player has just been accepted: each of the two was sent one
\* PlayerJoined about the other.
C25_SecondPlayerJoined ==
    /\ handled.msg.type = "Connect"
    /\ handled.client_id \in DOMAIN session.players
    /\ Cardinality(DOMAIN session.players) = 2
    /\ \A c \in DOMAIN session.players :
           Cardinality(SendsOf(calls, c, "PlayerJoined")) = 1

(***************************************************************************)
(* C26: Place.                                                             *)
(***************************************************************************)
\* The head of the batch is a Place of a registered player with a non-empty
\* active slot whose ray hits.
Placing ==
    /\ HandlingOf("BlockInteraction")
    /\ messages[1].msg.action = "Place"
    /\ messages[1].client_id \in DOMAIN session.players
    /\ active_block(session.inventories[messages[1].client_id]).some
    /\ HeadHit.hit

\* The cell a Place at the head of the batch is for: hit cell + hit normal.
PlacePos == VAdd(HeadHit.block_pos, HeadHit.normal)

\* What a Place does: the cell holds the block of the active slot afterwards,
\* one BlockChanged is sent, for that cell and that block, and the inventory has
\* one item less in the active slot in Survival (the slot empty if it was the
\* last) and is unchanged in Creative.
PlaceEffect ==
    LET c == messages[1].client_id
        inv == session.inventories[c]
        stack == active_block(inv)
        p == PlacePos
        told == CallsOf(calls', "BlockChanged")
    IN  /\ ChunkMap_get_block(session'.chunk_map, p[1], p[2], p[3]) = stack.block
        /\ Cardinality(told) = 1
        /\ \A i \in told : calls'[i].msg.position = p /\ calls'[i].msg.new_type = stack.block
        /\ session'.inventories[c] =
               IF session.players[c].game_mode = "Creative" THEN inv
               ELSE IF stack.count = 1
               THEN [inv EXCEPT !.slots[inv.active_slot] = None]
               ELSE [inv EXCEPT !.slots[inv.active_slot].count = stack.count - 1]

\* C26: every Place of a registered player with a non-empty active slot whose
\* ray hits a solid cell has the effect PlaceEffect.
C26_PlaceWritesAndConsumes == [][Placing => PlaceEffect]_vars

\* The part of C26 the code keeps: the Place has that effect whenever the cell
\* hit cell + hit normal is in the height range of a loaded chunk.
C26_PlaceInLoadedRange ==
    [][(Placing /\ InHeight(PlacePos) /\ ChunkOf(PlacePos) \in DOMAIN session.chunk_map) =>
          PlaceEffect]_vars

\* Bob has placed his two last items: the slot is empty and the second block
\* lies in the world.
C26_LastItemPlaced ==
    /\ handled.msg.type = "BlockInteraction"
    /\ 0 \in DOMAIN session.inventories
    /\ ~session.inventories[0].slots[0].some
    /\ CallsOf(calls, "BlockChanged") # {}
    /\ \A i \in CallsOf(calls, "BlockChanged") :
           LET p == calls[i].msg.position
           IN  ChunkMap_get_block(session.chunk_map, p[1], p[2], p[3]) = "Grass"

(***************************************************************************)
(* C27: DropItem.                                                          *)
(***************************************************************************)
\* The head of the batch is a DropItem with count >= 1 of a registered player,
\* on a slot of the inventory that holds a stack.
Dropping ==
    /\ HandlingOf("DropItem")
    /\ messages[1].msg.count >= 1
    /\ messages[1].client_id \in DOMAIN session.players
    /\ messages[1].client_id \in DOMAIN session.inventories
    /\ SlotInBounds(messages[1].msg.slot)
    /\ session.inventories[messages[1].client_id].slots[messages[1].msg.slot].some

\* The items a slot holds.
HeldIn(slot) == IF slot.some THEN slot.count ELSE 0

\* C27: a DropItem{slot, count} with count >= 1 on a slot holding n items of
\* block b takes d = min(count, n) items out of the slot (the slot is cleared
\* when d = n, n = items left + d), leaves every other slot as it was, creates
\* exactly one dropped item, with stack (b, d) and under the id next_entity_id
\* that no dropped item had, and makes one DroppedItemSpawned call for that id
\* and stack.
C27_DropItemMovesStack ==
    [][Dropping =>
        LET c == messages[1].client_id
            s == messages[1].msg.slot
            inv == session.inventories[c]
            n == inv.slots[s].count
            b == inv.slots[s].block
            d == Min(messages[1].msg.count, n)
            id == session.next_entity_id
            told == CallsOf(calls', "DroppedItemSpawned")
        IN  /\ session'.inventories[c].slots[s] =
                   IF d = n THEN None ELSE [some |-> TRUE, block |-> b, count |-> n - d]
            /\ n = HeldIn(session'.inventories[c].slots[s]) + d
            /\ \A i \in 0..(INVENTORY_SLOTS - 1) \ {s} :
                   session'.inventories[c].slots[i] = inv.slots[i]
            /\ session'.inventories[c].active_slot = inv.active_slot
            /\ id \notin DOMAIN session.dropped_items
            /\ DOMAIN session'.dropped_items = DOMAIN session.dropped_items \cup {id}
            /\ \A e \in DOMAIN session.dropped_items :
                   session'.dropped_items[e] = session.dropped_items[e]
            /\ session'.dropped_items[id].stack = ItemStack_new(b, d)
            /\ Cardinality(told) = 1
            /\ \A i \in told : /\ calls'[i].op = "broadcast_except"
                               /\ calls'[i].to = c
                               /\ calls'[i].msg.id = id
                               /\ calls'[i].msg.stack = ItemStack_new(b, d)]_vars

\* A drop of 64 from a slot that an earlier drop left with 63 items: the count
\* was clamped, the slot is empty and two dropped items lie in the world.
C27_ClampedDrop ==
    /\ handled.msg.type = "DropItem"
    /\ handled.msg.count = 64
    /\ 0 \in DOMAIN session.inventories
    /\ ~session.inventories[0].slots[0].some
    /\ \E e, f \in DOMAIN session.dropped_items :
          /\ e # f
          /\ session.dropped_items[e].stack = ItemStack_new("Grass", 1)
          /\ session.dropped_items[f].stack = ItemStack_new("Grass", 63)

(***************************************************************************)
(* C28: ChunkData messages per player and tick.                            *)
(***************************************************************************)
\* The ChunkData calls among cs that are addressed to client c.
ChunkDataTo(cs, c) == {i \in CallsOf(cs, "ChunkData") : cs[i].to = c}

\* C28: no step of a tick, the handling of a Connect and the streaming stage
\* included, sends more than MAX_CHUNKS_PER_PLAYER_PER_TICK ChunkData messages
\* to one player (a tick sends at least what one of its steps sends).
C28_ChunkDataPerTick ==
    [][\A c \in clients' :
           Cardinality(ChunkDataTo(calls', c)) <= MAX_CHUNKS_PER_PLAYER_PER_TICK]_vars

\* The part of C28 the code keeps: the streaming stage sends a player at most
\* MAX_CHUNKS_PER_PLAYER_PER_TICK ChunkData messages, all of chunks it lacked.
C28_StreamStageLimited ==
    [][Streaming =>
          \A c \in clients' :
              /\ Cardinality(ChunkDataTo(calls', c)) <= MAX_CHUNKS_PER_PLAYER_PER_TICK
              /\ \A i \in ChunkDataTo(calls', c) :
                     c \in DOMAIN session.players /\ calls'[i].msg.pos \in ToSend(session, c)]_vars

\* The streaming stage has more than MAX_CHUNKS_PER_PLAYER_PER_TICK chunks to
\* send to a player.
C28_MoreThanLimitDue ==
    /\ stage = "stream"
    /\ \E c \in DOMAIN session.players :
          Cardinality(ToSend(session, c)) > MAX_CHUNKS_PER_PLAYER_PER_TICK

(***************************************************************************)
(* C29: an edited chunk comes back from disk as it was evicted.            *)
(***************************************************************************)
\* ensure_chunk_loaded has just loaded a chunk that block edits had modified
\* and the streaming stage had evicted, its file not damaged from outside
\* since it was last written.
Reloaded ==
    /\ Ensured
    /\ probe.pos \notin DOMAIN probe.before
    /\ probe.pos \in probe.edited
    /\ probe.pos \in DOMAIN probe.evicted
    /\ probe.pos \notin probe.damaged

\* C29: a chunk modified by block edits, evicted by the streaming stage and
\* loaded again by ensure_chunk_loaded has the block array it had at eviction.
C29_EvictedEditsComeBack ==
    Reloaded => probe.ws.chunk_map[probe.pos].blocks = probe.evicted[probe.pos]

\* An edited chunk is back in memory after its eviction, with blocks that are
\* not those of the terrain generator.
C29_Witness ==
    /\ Reloaded
    /\ probe.ws.chunk_map[probe.pos].blocks # GeneratedChunk(probe.pos).blocks

(***************************************************************************)
(* C30: pickup resolution keeps the items.                                 *)
(***************************************************************************)
RECURSIVE HeldBy(_, _, _)
\* The items of block b in the inventories of the players ids of a session.
HeldBy(ws, b, ids) ==
    IF ids = {} THEN 0
    ELSE LET c == CHOOSE x \in ids : TRUE
         IN  CountIn(ws.inventories[c], b, INVENTORY_SLOTS) + HeldBy(ws, b, ids \ {c})

\* The dropped items a pickup resolution removes.
PickedUp == (DOMAIN session.dropped_items) \ DOMAIN session'.dropped_items

\* C30: a pickup resolution destroys no item: of every block type each player
\* holds afterwards at least what they held, and the players together hold
\* exactly as many more items as the removed dropped items held, also when an
\* inventory has room for part of a stack only and when one player collects
\* several items in the tick.
C30_PickupKeepsItems ==
    [][PickingUp =>
        \A b \in BlockType :
            /\ \A c \in DOMAIN session.inventories :
                   CountIn(session'.inventories[c], b, INVENTORY_SLOTS)
                       >= CountIn(session.inventories[c], b, INVENTORY_SLOTS)
            /\ HeldBy(session', b, DOMAIN session'.inventories)
                   = HeldBy(session, b, DOMAIN session.inventories)
                     + CountOf(session, b, PickedUp)]_vars

\* The part of C30 the code keeps: no player loses items in a pickup
\* resolution, and the players never gain more than the removed items held.
C30_PickupGainsAtMostStacks ==
    [][PickingUp =>
        \A b \in BlockType :
            /\ \A c \in DOMAIN session.inventories :
                   CountIn(session'.inventories[c], b, INVENTORY_SLOTS)
                       >= CountIn(session.inventories[c], b, INVENTORY_SLOTS)
            /\ HeldBy(session', b, DOMAIN session'.inventories)
                   <= HeldBy(session, b, DOMAIN session.inventories)
                      + CountOf(session, b, PickedUp)]_vars

(***************************************************************************)
(* C31: messages of clients that are not registered.                       *)
(***************************************************************************)
\* The head of the batch is a game message of a client without a PlayerState.
Unregistered ==
    /\ Handling
    /\ messages[1].msg.type \in {"InputCommand", "BlockInteraction", "DropItem", "ToggleGameMode"}
    /\ messages[1].client_id \notin DOMAIN session.players

\* The step leaves the chunk contents, the dropped items, next_entity_id, the
\* players and the inventories as they were and makes no transport call.
SessionUntouched ==
    /\ Blocks(session'.chunk_map) = Blocks(session.chunk_map)
    /\ session'.dropped_items = session.dropped_items
    /\ session'.next_entity_id = session.next_entity_id
    /\ session'.players = session.players
    /\ session'.inventories = session.inventories
    /\ calls' = <<>>

\* C31: an InputCommand, BlockInteraction, DropItem or ToggleGameMode of a
\* client id that has no PlayerState changes nothing of the session and sends
\* no message.
C31_OnlyPlayersChangeSession == [][Unregistered => SessionUntouched]_vars

\* The part of C31 the code keeps: every such message but a Break whose ray
\* hits a block changes nothing and sends nothing.
C31_AllButBreakGuarded ==
    [][(Unregistered /\ ~(messages[1].msg.type = "BlockInteraction"
                          /\ messages[1].msg.action = "Break" /\ HeadHit.hit)) =>
          SessionUntouched]_vars

(***************************************************************************)
(* C32: who the server's messages reach.                                   *)
(***************************************************************************)
\* The clients with a PlayerState before or after the step.
Registered == (DOMAIN session.players) \cup (DOMAIN session'.players)

\* The calls of the step, other than those sending ConnectRejected, that wrote
\* to a client without a PlayerState.
Leaks == {i \in DOMAIN calls' : /\ calls'[i].msg.type # "ConnectRejected"
                                /\ calls'[i].wrote \ Registered # {}}

\* C32: no message other than ConnectRejected is written to a connection whose
\* client has no PlayerState in the session: send, broadcast and
\* broadcast_except reach registered players only.
C32_OnlyPlayersAreWritten == [][calls' # calls => Leaks = {}]_vars

\* The part of C32 the code keeps: the messages addressed with send reach
\* registered players only.
C32_SendReachesPlayers ==
    [][calls' # calls => \A i \in Leaks : calls'[i].op # "send"]_vars

(***************************************************************************)
(* C33: DroppedItemSpawned and the client that created the item.           *)
(***************************************************************************)
\* The ids of the dropped items the step creates.
CreatedItems == (DOMAIN session'.dropped_items) \ DOMAIN session.dropped_items

\* The clients a DroppedItemSpawned of item id was written to in the step.
SpawnShownTo(id) ==
    UNION {calls'[i].wrote : i \in {j \in CallsOf(calls', "DroppedItemSpawned") :
                                        calls'[j].msg.id = id}}

\* The players whose connection is open at the creation of an item and stays
\* open through the step.
Watching == ((DOMAIN session.players) \cap clients') \ closed

\* C33: the step that creates a dropped item writes its DroppedItemSpawned to
\* every player connected at that moment, the one whose Break or DropItem
\* created the item included, so that every DroppedItemRemoved a client gets is
\* for an item it was shown and the items it displays are the session's.
C33_SpawnedShownToAll ==
    [][\A id \in CreatedItems : Watching \subseteq SpawnShownTo(id)]_vars

\* The part of C33 the code keeps: the DroppedItemSpawned is written to every
\* connected player but the creator of the item.
C33_SpawnedShownToOthers ==
    [][(Handling /\ CreatedItems # {}) =>
          \A id \in CreatedItems :
              Watching \ {messages[1].client_id} \subseteq SpawnShownTo(id)]_vars

\* Two players are in the game and one of them has just created an item.
C33_ItemCreatedBesideOther ==
    /\ handled.msg.type \in {"BlockInteraction", "DropItem"}
    /\ Cardinality((DOMAIN session.players) \cap Connected) = 2
    /\ \E i \in CallsOf(calls, "DroppedItemSpawned") : calls[i].wrote # {}

(***************************************************************************)
(* C34: the client's optimistic Place and the server's.                    *)
(***************************************************************************)
\* Bob has just placed a block on his side and the server has handled the
\* message.
PlacedOptimistically == probe.op = "place" /\ probe.wrote

\* The server agrees with the client's edit: the cell holds in the session what
\* it holds in the client's ChunkMap, and the BlockChanged for the others names
\* that block.
ServerAgrees ==
    LET p == probe.place_pos
    IN  /\ ChunkMap_get_block(probe.ws.chunk_map, p[1], p[2], p[3])
               = ChunkMap_get_block(probe.chunk_map, p[1], p[2], p[3])
        /\ \A i \in CallsOf(probe.calls, "BlockChanged") :
               probe.calls[i].msg.position = p /\ probe.calls[i].msg.new_type = probe.block

\* C34: with no other player editing, after the server has handled a Place the
\* block in the session's ChunkMap at the placed cell, and the one announced, is
\* the block the client wrote into its own ChunkMap, whichever hotbar slot the
\* client had selected.
C34_ServerPlacesClientBlock == PlacedOptimistically => ServerAgrees

\* The part of C34 the code keeps: the two agree as long as every Place was made
\* with the session's active slot selected on the client.
C34_AgreeOnSameSlot == (PlacedOptimistically /\ probe.synced) => ServerAgrees

\* Bob has placed a block with the hotbar slot he started with.
C34_PlacedFromFirstSlot ==
    /\ PlacedOptimistically
    /\ probe.synced
    /\ probe.steps = MaxHotbarSteps
    /\ CallsOf(probe.calls, "BlockChanged") # {}

(***************************************************************************)
(* C35: PlayerLeft, once per registered player.                            *)
(***************************************************************************)
\* C35: every PlayerLeft{c} the server sends is for a client c that has a
\* PlayerState when the step begins.  A PlayerLeft{c} for any other c is for a
\* client that was never accepted, or a second one for a player whose
\* PlayerLeft went out when it was removed.
C35_PlayerLeftOnlyForPlayers ==
    [][Handling =>
          \A i \in CallsOf(calls', "PlayerLeft") :
              calls'[i].msg.player_id \in DOMAIN session.players]_vars

\* The part of C35 the code keeps: PlayerLeft{c} is sent only in the step that
\* handles a Disconnect of c, and at most once to each client in that step.
C35_PlayerLeftOnDisconnect ==
    [][calls' # calls =>
          \A i \in CallsOf(calls', "PlayerLeft") :
              /\ HandlingOf("Disconnect")
              /\ calls'[i].msg.player_id = messages[1].client_id
              /\ \A j \in CallsOf(calls', "PlayerLeft") :
                     calls'[j].to = calls'[i].to => j = i]_vars

(***************************************************************************)
(* C36: the two mutexes of TcpServerTransport.                             *)
(***************************************************************************)
\* The mutexes thread t holds.
GuardsOf(t) == {m \in {"incoming", "clients"} : probe.holder[m] = t}

\* Some thread is inside Mutex::lock.
SomeoneWaits == \E t \in Threads : WaitsFor(probe.pc[t]) # "none"

\* C36: no thread waits for one of the two mutexes while holding the other (or
\* the same), and so there is no deadlock on them: whenever a thread waits for
\* a mutex, the mutex is free or its holder is at a position from which it
\* drops the guard without waiting for anything.
C36_NoLockHeldWhileWaiting ==
    \A t \in Threads :
        LET m == WaitsFor(probe.pc[t])
        IN  m # "none" =>
                /\ GuardsOf(t) = {}
                /\ probe.holder[m] # Nobody =>
                       /\ WaitsFor(probe.pc[probe.holder[m]]) = "none"
                       /\ probe.pc[probe.holder[m]]
                              \in {"call_in", "insert_in", "remove_in",
                                   "receive_in", "push_in", "error_in"}

\* The tick thread and the acceptor both wait for the clients mutex, which a
\* reader holds to remove its writer.
C36_Contended ==
    /\ probe.pc[TickThread] = "call_lock"
    /\ probe.pc[AcceptorThread] = "insert_lock"
    /\ \E c \in 0..(MaxConns - 1) : probe.holder["clients"] = ReaderThread(c)

(***************************************************************************)
(* C37: streaming settles once the player stands.                          *)
(***************************************************************************)
\* Bob's streamed-chunk set is the set of chunks within the view radius of his
\* position and the last stage sent him no ChunkData and no ChunkUnload.
Settled ==
    /\ probe.ws.loaded_chunks_per_player[0]
           = chunks_in_view_radius(probe.ws.players[0].position, VIEW_DISTANCE)
    /\ \A i \in DOMAIN probe.calls :
           probe.calls[i].to = 0 => probe.calls[i].msg.type \notin {"ChunkData", "ChunkUnload"}

\* C37: once the player's position has stopped changing, after finitely many
\* ticks the player's streamed-chunk set is the set of chunks within the view
\* radius of the position, and from then on the stage sends the player no
\* ChunkData and no ChunkUnload.
C37_StreamingSettles == <>[]Settled

\* Bob stands after his last walk, a stage on the way had more chunks for him
\* than one tick may send, and the streaming has settled.
C37_SettledAfterBacklog ==
    /\ Settled
    /\ probe.op = "stream"
    /\ probe.limited
    /\ probe.walks = MaxWalks

(***************************************************************************)
(* C38: the dirty flag and failed writes.                                  *)
(***************************************************************************)
\* The block array ensure_chunk_loaded would give chunk pos from the disk as it
\* is: the on-disk copy of the chunk.
OnDisk(pos) ==
    IF ChunkFileOk(probe.disk, pos) THEN probe.disk.chunks[pos].blocks
    ELSE GeneratedChunk(pos).blocks

\* The loaded chunks that are not dirty and differ from their on-disk copy.
CleanButUnsaved ==
    {pos \in DOMAIN probe.ws.chunk_map :
        /\ ~probe.ws.chunk_map[pos].dirty
        /\ probe.ws.chunk_map[pos].blocks # OnDisk(pos)}

\* C38: save_to_disk clears the dirty flag of a chunk only when the chunk was
\* written, so every loaded chunk that differs from its on-disk copy is dirty
\* (and will be written by the next save or by its eviction).
C38_UnsavedChunksAreDirty == CleanButUnsaved = {}

\* The part of C38 the code keeps: a clean chunk differs from its on-disk copy
\* only if its last write failed.
C38_UnsavedOnlyAfterFailure == CleanButUnsaved \subseteq probe.damaged

\* A save has written an edited chunk: the chunk is clean and its file holds
\* its blocks.
C38_SavedWitness ==
    /\ probe.op = "save"
    /\ \E pos \in probe.edited \cap DOMAIN probe.ws.chunk_map :
          /\ pos \in DOMAIN probe.before /\ probe.before[pos].dirty
          /\ ~probe.ws.chunk_map[pos].dirty
          /\ ChunkFileOk(probe.disk, pos)
          /\ probe.disk.chunks[pos].blocks = probe.ws.chunk_map[pos].blocks
          /\ probe.ws.chunk_map[pos].blocks # GeneratedChunk(pos).blocks

(***************************************************************************)
(* C39: a Place and the solid blocks.                                      *)
(***************************************************************************)
\* The block of cell w in the chunk map cm.
BlockAt(cm, w) == ChunkMap_get_block(cm, w[1], w[2], w[3])

\* The Place at the head of the batch writes a cell other than the hit cell
\* that held Air, and leaves the hit cell's block as it was.
PlaceSpares ==
    /\ PlacePos # HeadHit.block_pos
    /\ BlockAt(session.chunk_map, PlacePos) = "Air"
    /\ BlockAt(session'.chunk_map, HeadHit.block_pos) =
           BlockAt(session.chunk_map, HeadHit.block_pos)

\* The cell the ray of the Place at the head of the batch starts in.
PlaceOrigin ==
    LET o == messages[1].msg.origin
    IN  <<o[1] \div Unit, o[2] \div Unit, o[3] \div Unit>>

\* C39: a Place never replaces a solid block: the cell written is not the hit
\* cell and held Air, wherever the ray starts.
C39_PlaceNeverReplacesSolid == [][Placing => PlaceSpares]_vars

\* The part of C39 the code keeps: the Place of a ray that starts in an Air
\* cell writes a cell other than the hit cell that held Air.
C39_PlaceFromAirSparesSolid ==
    [][(Placing /\ BlockAt(session.chunk_map, PlaceOrigin) = "Air") => PlaceSpares]_vars

\* A Place from an Air cell has put a block on the ground.
C39_PlacedOnGround ==
    /\ handled.msg.type = "BlockInteraction"
    /\ handled.msg.origin = RayOrigin
    /\ \E i \in CallsOf(calls, "BlockChanged") :
          /\ calls[i].msg.new_type # "Air"
          /\ BlockAt(session.chunk_map, calls[i].msg.position) = calls[i].msg.new_type

(***************************************************************************)
(* C40: grounded items and the block below them.                           *)
(***************************************************************************)
\* The step that is the dropped-item physics stage of a tick.
ItemPhysics == stage = "physics" /\ stage' = "pickup"

\* The cell directly below the dropped item has a solid block in the world ws.
Supported(ws, item) ==
    Solid(ws.chunk_map, Floor(item.position[1]), Floor(item.position[2]) - 1,
          Floor(item.position[3]))

\* C40: after every dropped-item physics stage, every grounded item has a solid
\* block in the cell directly below it.
C40_GroundedItemsAreSupported ==
    [][ItemPhysics =>
          \A id \in DOMAIN session'.dropped_items :
              session'.dropped_items[id].grounded =>
                  Supported(session', session'.dropped_items[id])]_vars

\* The part of C40 the code keeps: an item that a physics stage grounds has a
\* solid block in the cell directly below it.
C40_LandedItemsAreSupported ==
    [][ItemPhysics =>
          \A id \in DOMAIN session'.dropped_items :
              (/\ id \in DOMAIN session.dropped_items
               /\ ~session.dropped_items[id].grounded
               /\ session'.dropped_items[id].grounded) =>
                  Supported(session', session'.dropped_items[id])]_vars

\* The item of a broken block has landed: it came after the lying item and is
\* grounded, after a physics stage.
C40_ItemLanded ==
    /\ stage = "pickup"
    /\ \E id \in DOMAIN session.dropped_items :
          id > 1 /\ session.dropped_items[id].grounded

====
